---------------------------- MODULE Spec2Model ----------------------------
(* A state-machine model of WebRenderer (src/renderer.js, lines 8-750):    *)
(* the scene graph with its current object, the uploaded-texture registry, *)
(* the pending material-definition file, and the asynchronous model loads. *)
(* Every event-loop callback of the program is one atomic action.          *)
EXTENDS Integers, Sequences, FiniteSets, TLC

VARIABLES
    sceneChildren,  \* this.scene.children: sequence of node identities
    currentObject,  \* this.currentObject: node identity, NoObject for null
    obj,            \* the node tree and the materials of the current object
    hierarchy,      \* the object name shown in the hierarchy panel
    wasCurrent,     \* history: nodes that were the current object and are replaced
    textureFiles,   \* this.textureFiles: insertion-ordered Map, as a sequence of entries
    mtlFile,        \* this.mtlFile: <<>> for null, else <<[url, file]>>
    mtlConsumed,    \* history: the pending material file was bound by a finished OBJ load
    loads,          \* model loads in flight, in request order
    spent,          \* history, per load: requested after the pending material file was used
    last,           \* history: what the last callback did (calls, alerts, exceptions)
    view,           \* the camera, the orbit controls and the directional light
    framed,         \* history: <<the view as left by the framing step on the current object>>
    isRotating,     \* this.isRotating
    heldObject      \* an object a caller holds and passes to fitObjectToScene

vars == <<sceneChildren, currentObject, obj, hierarchy, wasCurrent, textureFiles,
          mtlFile, mtlConsumed, loads, spent, last, view, framed, isRotating,
          heldObject>>

-----------------------------------------------------------------------------
(* Bounds of the model.                                                    *)

MaxLoads == 2       \* model loads in flight at once
MaxBatch == 2       \* files in one texture upload

-----------------------------------------------------------------------------
(* Text: a string is a sequence of one-character strings.                  *)

UpperCase == <<"A","B","C","D","E","F","G","H","I","J","K","L","M","N","O","P","Q","R","S","T","U","V","W","X","Y","Z">>
LowerCase == <<"a","b","c","d","e","f","g","h","i","j","k","l","m","n","o","p","q","r","s","t","u","v","w","x","y","z">>

LowerOf ==
    [c \in {UpperCase[i] : i \in DOMAIN UpperCase} |->
        LowerCase[CHOOSE i \in DOMAIN UpperCase : UpperCase[i] = c]]

ToLowerChar(c) == IF c \in DOMAIN LowerOf THEN LowerOf[c] ELSE c

\* String.prototype.toLowerCase
ToLowerCase(s) == [i \in DOMAIN s |-> ToLowerChar(s[i])]

\* String.prototype.includes
Includes(s, p) ==
    \E i \in 0..(Len(s) - Len(p)) : \A k \in DOMAIN p : s[i + k] = p[k]

\* s.split(sep).pop(): the text after the last sep, all of s when it holds no sep
SplitPop(s, sep) ==
    LET at == {i \in DOMAIN s : s[i] = sep}
    IN  IF at = {} THEN s
        ELSE SubSeq(s, (CHOOSE i \in at : \A j \in at : j <= i) + 1, Len(s))

\* URL.createObjectURL(file): one locator per file
CreateObjectURL(file) == <<"b","l","o","b",":">> \o file

\* the base filename of a path, lowercased
BaseName(path) == ToLowerCase(SplitPop(SplitPop(path, "/"), "\\"))

-----------------------------------------------------------------------------
(* Numbers and vectors: a number is a fraction <<n, d>>, d > 0, in lowest   *)
(* terms; a vector is a triple of numbers.                                 *)

Abs(n) == IF n < 0 THEN -n ELSE n

RECURSIVE GCD(_, _)
GCD(a, b) == IF b = 0 THEN a ELSE GCD(b, a % b)

Rat(n, d) ==
    LET g == GCD(Abs(n), Abs(d))
        sign == IF d < 0 THEN -1 ELSE 1
    IN  <<(sign * n) \div g, Abs(d) \div g>>

RatAdd(a, b) == Rat(a[1] * b[2] + b[1] * a[2], a[2] * b[2])
RatSub(a, b) == Rat(a[1] * b[2] - b[1] * a[2], a[2] * b[2])
RatMul(a, b) == Rat(a[1] * b[1], a[2] * b[2])
RatDiv(a, b) == Rat(a[1] * b[2], a[2] * b[1])
RatLess(a, b) == a[1] * b[2] < b[1] * a[2]
RatMin(a, b) == IF RatLess(b, a) THEN b ELSE a
RatMax(a, b) == IF RatLess(a, b) THEN b ELSE a

Zero == Rat(0, 1)
One == Rat(1, 1)

\* new THREE.Vector3(x, y, z) and the Vector3 methods used
Vector3(x, y, z) == <<x, y, z>>
VecAdd(u, v) == [k \in 1..3 |-> RatAdd(u[k], v[k])]
VecSub(u, v) == [k \in 1..3 |-> RatSub(u[k], v[k])]
VecMul(u, v) == [k \in 1..3 |-> RatMul(u[k], v[k])]
MultiplyScalar(v, c) == [k \in 1..3 |-> RatMul(v[k], c)]

Origin == Vector3(Zero, Zero, Zero)
UnitScale == Vector3(One, One, One)

\* a box is <<>> when empty (Box3.isEmpty), else one [min, max] record
Box3(min, max) == <<[min |-> min, max |-> max]>>
EmptyBox == <<>>

\* the box of extents w, h, d (halves hw, hh, hd) centered on the local origin
CenteredBox(hw, hh, hd) ==
    Box3(Vector3(RatSub(Zero, hw), RatSub(Zero, hh), RatSub(Zero, hd)),
         Vector3(hw, hh, hd))

-----------------------------------------------------------------------------
(* Camera numbers. The camera distance is maxDim times                     *)
(* K = 1.5 * 0.5 / tan(fov / 2), and the distance from the camera to the    *)
(* center is maxDim times L = K * sqrt(0.3^2 + 0.3^2 + 1): with fov = 75    *)
(* degrees both are irrational and 1, K, L are independent over the         *)
(* fractions, so a camera number is kept exactly as the triple                *)
(* [r, k, l] of fractions that stands for r + k * K + l * L.              *)

Surd(r, k, l) == [r |-> r, k |-> k, l |-> l]
SurdOf(r) == Surd(r, Zero, Zero)
SurdAdd(a, b) == Surd(RatAdd(a.r, b.r), RatAdd(a.k, b.k), RatAdd(a.l, b.l))
SurdScale(a, c) == Surd(RatMul(a.r, c), RatMul(a.k, c), RatMul(a.l, c))

\* K = 0.97741902..., L = 1.06174883...: fractions below and above each
KLow == Rat(977419, 1000000)
KHigh == Rat(977420, 1000000)
LLow == Rat(1061748, 1000000)
LHigh == Rat(1061749, 1000000)

SurdLow(a) ==
    RatAdd(a.r, RatAdd(RatMul(a.k, IF RatLess(a.k, Zero) THEN KHigh ELSE KLow),
                       RatMul(a.l, IF RatLess(a.l, Zero) THEN LHigh ELSE LLow)))
SurdHigh(a) ==
    RatAdd(a.r, RatAdd(RatMul(a.k, IF RatLess(a.k, Zero) THEN KLow ELSE KHigh),
                       RatMul(a.l, IF RatLess(a.l, Zero) THEN LLow ELSE LHigh)))

\* Math.max on camera numbers, decided by the fractions around K and L (two
\* different numbers closer than those fractions tell apart do not occur for
\* the extents of the model)
SurdMax(a, b) == IF RatLess(SurdHigh(a), SurdLow(b)) THEN b ELSE a

\* a vector of camera numbers from a vector of fractions
SurdVector(v) == [i \in 1..3 |-> SurdOf(v[i])]

-----------------------------------------------------------------------------
(* Scene nodes and materials.                                              *)

NoObject == 0
BaseColor == 4886754        \* 0x4a90e2
White == 16777215           \* 0xffffff
Black == 0                  \* 0x000000
NoColor == -1               \* a material without that color property
Red == 16711680             \* 0xff0000

ambientLight == 1
directionalLight == 2
pointLight1 == 3
pointLight2 == 4
FirstObjectId == 5

SRGBColorSpace == "srgb"
LinearSRGBColorSpace == "srgb-linear"
NoColorSpace == ""

mapProps == <<"map", "normalMap", "bumpMap", "emissiveMap", "roughnessMap",
              "metalnessMap", "aoMap", "specularMap", "displacementMap", "alphaMap">>

Slots == {mapProps[i] : i \in DOMAIN mapProps}

NoMaps == [p \in Slots |-> <<>>]

\* new THREE.MeshStandardMaterial({color}): no texture bound, solid, opaque
StandardMaterial(color) ==
    [color |-> color, wireframe |-> FALSE, emissive |-> Black,
     emissiveIntensity |-> 1, transparent |-> FALSE, maps |-> NoMaps]

\* new THREE.Texture(): sourceFile is <<>> when the texture carries none
Texture(sourceFile, colorSpace, url) ==
    [sourceFile |-> sourceFile, colorSpace |-> colorSpace, url |-> url]

\* new THREE.Mesh(geometry, material) / new THREE.Group(): shadows off
Mesh(geometry, material) ==
    [isMesh |-> TRUE, geometry |-> geometry, castShadow |-> FALSE,
     receiveShadow |-> FALSE, material |-> material]
Group ==
    [isMesh |-> FALSE, geometry |-> "", castShadow |-> FALSE,
     receiveShadow |-> FALSE, material |-> <<>>]

\* An object: nodes[1] is the root and nodes[2..] its children in traversal
\* order; a node's material is a sequence of indices into mats (a single
\* material is a one-element sequence, as the code normalizes it).
\* position, scale and rotation (Euler x, y, z) are the root's; box is the
\* bounding box of the geometry below the root in the root's own frame.
NoObjectTree ==
    [nodes |-> <<>>, mats |-> <<>>, position |-> Origin, scale |-> UnitScale,
     rotation |-> Origin, box |-> EmptyBox]

\* an Object3D as constructed: at the origin, unit scale
Object3D(nodes, mats, box) ==
    [nodes |-> nodes, mats |-> mats, position |-> Origin, scale |-> UnitScale,
     rotation |-> Origin, box |-> box]

ShapeTypes == {"cube", "sphere", "torus", "cone", "cylinder", "teapot"}


\* the materials visited by currentObject.traverse, in visiting order (a
\* material shared by several meshes is visited once per mesh)
RECURSIVE Visits(_)
Visits(nodes) ==
    IF nodes = <<>> THEN <<>>
    ELSE (IF Head(nodes).isMesh THEN Head(nodes).material ELSE <<>>) \o Visits(Tail(nodes))

-----------------------------------------------------------------------------
(* frameCameraOnObject (522-571) and the view it writes.                   *)

\* new THREE.Box3().setFromObject(object) after updateMatrixWorld(true): the
\* geometry's box carried by the root's scale and position (the root
\* unrotated, as every object is when it is fitted or framed)
SetFromObject(tree) ==
    IF tree.box = EmptyBox THEN EmptyBox
    ELSE LET a == VecAdd(tree.position, VecMul(tree.scale, tree.box[1].min))
             b == VecAdd(tree.position, VecMul(tree.scale, tree.box[1].max))
         IN  Box3([k \in 1..3 |-> RatMin(a[k], b[k])], [k \in 1..3 |-> RatMax(a[k], b[k])])

\* box.getCenter, box.getSize, Math.max(size.x, size.y, size.z)
GetCenter(box) == MultiplyScalar(VecAdd(box[1].min, box[1].max), Rat(1, 2))
GetSize(box) == VecSub(box[1].max, box[1].min)
MaxDim(box) == RatMax(GetSize(box)[1], RatMax(GetSize(box)[2], GetSize(box)[3]))

fov == 75

\* the view after init() has set up the camera (39-46), the directional
\* light (62-67) and the orbit controls (78-84); the shadow camera is the
\* one a DirectionalLight is constructed with
InitialView ==
    [position |-> SurdVector(Vector3(Zero, Zero, Rat(5, 1))),
     target |-> Origin,
     near |-> SurdOf(Rat(1, 100)), far |-> SurdOf(Rat(10000, 1)),
     minDistance |-> Rat(1, 100), maxDistance |-> Rat(10000, 1),
     lightPosition |-> Vector3(Rat(5, 1), Rat(5, 1), Rat(5, 1)),
     shadowNear |-> Rat(1, 2), shadowFar |-> Rat(500, 1), shadowExtent |-> Rat(5, 1)]

\* frameCameraOnObject on the view v, with `tree` standing as current
\* object: nothing without an object or on an empty box; else the camera at
\* center + cameraDistance * (0.3, 0.3, 1), the target on the center, the
\* clip planes, the orbit limits and the light from maxDim. controls.update()
\* leaves the camera where it is: its distance to the target is within the
\* limits just set.
FrameCameraOnObject(v, present, tree) ==
    IF ~present \/ SetFromObject(tree) = EmptyBox THEN v
    ELSE LET box == SetFromObject(tree)
             center == GetCenter(box)
             maxDim == MaxDim(box)
             cameraDistance == Surd(Zero, maxDim, Zero)
             dist == Surd(Zero, Zero, maxDim)
             lightOffset == RatMul(maxDim, Rat(2, 1))
         IN  [position |->
                <<SurdAdd(SurdOf(center[1]), SurdScale(cameraDistance, Rat(3, 10))),
                  SurdAdd(SurdOf(center[2]), SurdScale(cameraDistance, Rat(3, 10))),
                  SurdAdd(SurdOf(center[3]), cameraDistance)>>,
              target |-> center,
              near |-> SurdMax(SurdOf(Rat(1, 1000)), SurdScale(dist, Rat(1, 1000))),
              far |-> SurdMax(SurdOf(Rat(1000, 1)), SurdScale(dist, Rat(100, 1))),
              minDistance |-> RatMul(maxDim, Rat(5, 100)),
              maxDistance |-> RatMul(maxDim, Rat(50, 1)),
              lightPosition |-> Vector3(lightOffset, lightOffset, lightOffset),
              shadowNear |-> Rat(1, 100),
              shadowFar |-> RatMul(lightOffset, Rat(10, 1)),
              shadowExtent |-> RatMul(maxDim, Rat(2, 1))]

\* the history of the framing step: what it left, or nothing when it
\* returned early
Framed(v, present, tree) ==
    IF ~present \/ SetFromObject(tree) = EmptyBox THEN <<>>
    ELSE <<FrameCameraOnObject(v, present, tree)>>

-----------------------------------------------------------------------------
(* loadShape (lines 93-176).                                               *)

NoGeometry == "BufferGeometry"      \* the Mesh default when geometry is undefined

ShapeGeometry(shapeType) ==
    CASE shapeType = "cube" -> "BoxGeometry"
      [] shapeType = "sphere" -> "SphereGeometry"
      [] shapeType = "torus" -> "TorusGeometry"
      [] shapeType = "cone" -> "ConeGeometry"
      [] shapeType = "cylinder" -> "CylinderGeometry"
      [] OTHER -> NoGeometry

\* the bounding box of the geometry each case constructs: BoxGeometry(2, 2, 2),
\* SphereGeometry(1.5), TorusGeometry(1.5, 0.5), ConeGeometry(1.5, 2.5),
\* CylinderGeometry(1, 1, 2.5); an undefined geometry has no vertices
ShapeBox(shapeType) ==
    CASE shapeType = "cube" -> CenteredBox(One, One, One)
      [] shapeType = "sphere" -> CenteredBox(Rat(3, 2), Rat(3, 2), Rat(3, 2))
      [] shapeType = "torus" -> CenteredBox(Rat(2, 1), Rat(2, 1), Rat(1, 2))
      [] shapeType = "cone" -> CenteredBox(Rat(3, 2), Rat(5, 4), Rat(3, 2))
      [] shapeType = "cylinder" -> CenteredBox(One, Rat(5, 4), One)
      [] OTHER -> EmptyBox

\* the five parts together: x from the body (-1) to the tip of the spout
\* (1.4), y from the rim of the open body (cos(0.7 pi), to four places) to
\* the top of the knob (1.2), z the body's
TeapotBox ==
    Box3(Vector3(Rat(-1, 1), Rat(-5878, 10000), Rat(-1, 1)),
         Vector3(Rat(7, 5), Rat(6, 5), One))

\* case 'teapot': a group of five meshes, all built on bodyMaterial
TeapotParts ==
    <<Mesh("SphereGeometry", <<1>>),       \* body
      Mesh("ConeGeometry", <<1>>),         \* spout
      Mesh("TorusGeometry", <<1>>),        \* handle
      Mesh("CylinderGeometry", <<1>>),     \* lid
      Mesh("SphereGeometry", <<1>>)>>      \* knob

\* faulty variant: every part on a material of its own
TeapotOwnMaterials ==
    Object3D(<<Group>> \o [p \in 1..5 |-> [TeapotParts[p] EXCEPT !.material = <<p>>]],
             [p \in 1..5 |-> StandardMaterial(BaseColor)], TeapotBox)

Teapot ==
    Object3D(<<Group>> \o TeapotParts, <<StandardMaterial(BaseColor)>>, TeapotBox)

\* the five basic primitives: one mesh, shadows switched on after construction
Primitive(shapeType) ==
    Object3D(<<[Mesh(ShapeGeometry(shapeType), <<1>>)
                    EXCEPT !.castShadow = TRUE, !.receiveShadow = TRUE]>>,
             <<StandardMaterial(BaseColor)>>, ShapeBox(shapeType))

ShapeObject(shapeType) ==
    IF shapeType = "teapot" THEN Teapot ELSE Primitive(shapeType)

\* Object3D.remove / Object3D.add on the scene
SceneRemove(children, id) == SelectSeq(children, LAMBDA c : c # id)
SceneAdd(children, id) == Append(SceneRemove(children, id), id)

\* faulty variant: the replaced object is left in the scene
RemoveCurrentSkipped == sceneChildren

\* "Remove current object": if (this.currentObject) this.scene.remove(...)
RemoveCurrent ==
    IF currentObject # NoObject THEN SceneRemove(sceneChildren, currentObject)
    ELSE sceneChildren

\* what every callback starts from in the history variable
\*   file, info    the callback's input: a name, the files of the event
\*   index         the in-flight load the callback belongs to (0: none)
\*   loaderCalls   loaders and parsers called, applySeen: the registry at
\*                 each call of applyUploadedTextures
\*   failed        the decoder that failed in the callback ("": none)
\*   alerts        formats named by alert(), thrown: an exception escaped
\*   mtlRead       the material file handed to mtlReader
\*   mtlBound      the material file whose descriptor the OBJ parser got
\*   spent         the load was requested after the pending file was used
\*   overtaken     a load requested after this one completed before it
Did(op) ==
    [op |-> op, file |-> <<>>, info |-> <<>>, index |-> 0, loaderCalls |-> <<>>,
     applySeen |-> <<>>, failed |-> "", alerts |-> <<>>, thrown |-> FALSE,
     mtlRead |-> <<>>, mtlBound |-> <<>>, spent |-> FALSE, overtaken |-> FALSE]

\* updateHierarchy(shapeType.charAt(0).toUpperCase() + shapeType.slice(1))
Capitalized(shapeType) ==
    CASE shapeType = "cube" -> <<"C","u","b","e">>
      [] shapeType = "sphere" -> <<"S","p","h","e","r","e">>
      [] shapeType = "torus" -> <<"T","o","r","u","s">>
      [] shapeType = "cone" -> <<"C","o","n","e">>
      [] shapeType = "cylinder" -> <<"C","y","l","i","n","d","e","r">>
      [] shapeType = "teapot" -> <<"T","e","a","p","o","t">>
      [] shapeType = "pyramid" -> <<"P","y","r","a","m","i","d">>
      [] OTHER -> <<shapeType>>

Range(seq) == {seq[i] : i \in DOMAIN seq}

\* the identity of a node constructed now: one no live node has (a replaced
\* node that nothing references any more is reclaimed with its identity)
NewNode ==
    LET live == Range(sceneChildren) \cup {currentObject}
    IN  CHOOSE n \in FirstObjectId..(FirstObjectId + Cardinality(live)) : n \notin live

\* replace the current object by a freshly constructed node: remove the
\* current object, assign this.currentObject, this.scene.add(currentObject);
\* loadShape (160, 175) and fitObjectToScene (519) end by framing the camera
\* on the new current object
Install(tree) ==
    /\ sceneChildren' = SceneAdd(RemoveCurrent, NewNode)
    /\ currentObject' = NewNode
    /\ obj' = tree
    /\ wasCurrent' = ((wasCurrent \cup {currentObject}) \ {NoObject, NewNode})
                        \cap Range(sceneChildren')
    /\ view' = FrameCameraOnObject(view, TRUE, tree)
    /\ framed' = Framed(view, TRUE, tree)

LoadShape(shapeType) ==
    /\ Install(ShapeObject(shapeType))
    /\ hierarchy' = Capitalized(shapeType)
    /\ last' = [Did("loadShape") EXCEPT !.file = <<shapeType>>]
    /\ UNCHANGED <<isRotating, heldObject, textureFiles, mtlFile, mtlConsumed, loads, spent>>

-----------------------------------------------------------------------------
(* updateObjectColor (618-631), toggleWireframe (641-653).                 *)

Colors == {BaseColor, White}

\* the traversal writes to the material of each mesh it visits, in turn
RECURSIVE SetColor(_, _, _)
SetColor(mats, visits, color) ==
    IF visits = <<>> THEN mats
    ELSE SetColor([mats EXCEPT ![Head(visits)].color = color], Tail(visits), color)

RECURSIVE FlipWireframe(_, _)
FlipWireframe(mats, visits) ==
    IF visits = <<>> THEN mats
    ELSE FlipWireframe([mats EXCEPT ![Head(visits)].wireframe = ~@], Tail(visits))

UpdateObjectColor(color) ==
    /\ obj' = IF currentObject = NoObject THEN obj
              ELSE [obj EXCEPT !.mats = SetColor(obj.mats, Visits(obj.nodes), color)]
    /\ last' = Did("updateObjectColor")
    /\ UNCHANGED <<isRotating, heldObject, view, framed, sceneChildren, currentObject,
                   hierarchy, wasCurrent, textureFiles,
                   mtlFile, mtlConsumed, loads, spent>>

ToggleWireframe ==
    /\ obj' = IF currentObject = NoObject THEN obj
              ELSE [obj EXCEPT !.mats = FlipWireframe(obj.mats, Visits(obj.nodes))]
    /\ last' = Did("toggleWireframe")
    /\ UNCHANGED <<isRotating, heldObject, view, framed, sceneChildren, currentObject,
                   hierarchy, wasCurrent, textureFiles,
                   mtlFile, mtlConsumed, loads, spent>>

-----------------------------------------------------------------------------
(* applyUploadedTextures (222-320) and fixMaterialTextures (573-606).      *)

\* Map.get / Map.set on the insertion-ordered registry of [key, url, file]
MapIndex(reg, key) ==
    IF \E i \in DOMAIN reg : reg[i].key = key
    THEN CHOOSE i \in DOMAIN reg : reg[i].key = key
    ELSE 0

MapSet(reg, key, entry) ==
    IF MapIndex(reg, key) # 0 THEN [reg EXCEPT ![MapIndex(reg, key)] = entry]
    ELSE Append(reg, entry)

\* only diffuse/emissive maps use sRGB; the others are linear data
SlotColorSpace(prop) ==
    IF prop = "map" \/ prop = "emissiveMap" THEN SRGBColorSpace ELSE LinearSRGBColorSpace

\* textureLoader.load(url) with the slot's color space: no sourceFile
LoadedTexture(prop, url) == Texture(<<>>, SlotColorSpace(prop), url)

\* material property names and their filename patterns
textureMapTypes ==
    <<
      [prop |-> "map", patterns |-> {
          <<"d","i","f","f","u","s","e">>,
          <<"a","l","b","e","d","o">>,
          <<"b","a","s","e","c","o","l","o","r">>,
          <<"b","a","s","e","_","c","o","l","o","r">>,
          <<"c","o","l","o","r">>,
          <<"d","i","f","f">>}],
      [prop |-> "normalMap", patterns |-> {
          <<"n","o","r","m","a","l">>,
          <<"n","r","m">>,
          <<"n","o","r","m">>,
          <<"n","m","a","p">>}],
      [prop |-> "bumpMap", patterns |-> {
          <<"b","u","m","p">>,
          <<"h","e","i","g","h","t">>,
          <<"d","i","s","p","_","b","u","m","p">>}],
      [prop |-> "emissiveMap", patterns |-> {
          <<"e","m","i","s","s","i","v","e">>,
          <<"e","m","i","s","s","i","o","n">>,
          <<"e","m","i","t">>,
          <<"g","l","o","w">>,
          <<"s","e","l","f","_","i","l","l","u","m">>}],
      [prop |-> "roughnessMap", patterns |-> {
          <<"r","o","u","g","h","n","e","s","s">>,
          <<"r","o","u","g","h">>,
          <<"r","g","h">>}],
      [prop |-> "metalnessMap", patterns |-> {
          <<"m","e","t","a","l","n","e","s","s">>,
          <<"m","e","t","a","l","l","i","c">>,
          <<"m","e","t","a","l">>,
          <<"m","e","t">>}],
      [prop |-> "aoMap", patterns |-> {
          <<"a","o">>,
          <<"a","m","b","i","e","n","t","_","o","c","c","l","u","s","i","o","n">>,
          <<"a","m","b","i","e","n","t","o","c","c","l","u","s","i","o","n">>,
          <<"o","c","c","l","u","s","i","o","n">>}],
      [prop |-> "specularMap", patterns |-> {
          <<"s","p","e","c","u","l","a","r">>,
          <<"s","p","e","c">>,
          <<"r","e","f","l">>}],
      [prop |-> "displacementMap", patterns |-> {
          <<"d","i","s","p","l","a","c","e","m","e","n","t">>,
          <<"d","i","s","p","l","a","c","e">>,
          <<"h","e","i","g","h","t","m","a","p">>}],
      [prop |-> "alphaMap", patterns |-> {
          <<"a","l","p","h","a">>,
          <<"o","p","a","c","i","t","y">>,
          <<"t","r","a","n","s","p","a","r","e","n","t">>,
          <<"t","r","a","n","s","p","a","r","e","n","c","y">>}]
    >>

\* faulty variant: the last matching entry wins
LastMatch(lower, patterns) ==
    LET hits == {i \in DOMAIN lower : \E p \in patterns : Includes(lower[i], p)}
    IN  IF hits = {} THEN 0 ELSE CHOOSE i \in hits : \A j \in hits : j <= i

\* the first registry entry, in registry order, whose name holds a pattern (0: none)
\* `lower` holds fileName.toLowerCase() of every entry
FirstMatch(lower, patterns) ==
    LET hits == {i \in DOMAIN lower : \E p \in patterns : Includes(lower[i], p)}
    IN  IF hits = {} THEN 0 ELSE CHOOSE i \in hits : \A j \in hits : i <= j

\* lines 245-254: one [prop, idx] per map type that some file matches
PatternScan(reg) ==
    LET lower == [i \in DOMAIN reg |-> ToLowerCase(reg[i].key)]
    IN  SelectSeq([t \in DOMAIN textureMapTypes |->
                      [prop |-> textureMapTypes[t].prop,
                       idx |-> FirstMatch(lower, textureMapTypes[t].patterns)]],
                  LAMBDA a : a.idx # 0)

HasProp(assignments, prop) == \E k \in DOMAIN assignments : assignments[k].prop = prop

\* faulty variant: the fallback takes the first file, used or not
DiffuseFallbackAnyFile(reg, scanned) ==
    IF ~HasProp(scanned, "map") /\ reg # <<>>
    THEN Append(scanned, [prop |-> "map", idx |-> 1])
    ELSE scanned

\* lines 256-266: no diffuse matched gives the first unused file to 'map'
DiffuseFallback(reg, scanned) ==
    LET usedFiles == {reg[scanned[k].idx].key : k \in DOMAIN scanned}
        free == {i \in DOMAIN reg : reg[i].key \notin usedFiles}
    IN  IF ~HasProp(scanned, "map") /\ free # {}
        THEN Append(scanned, [prop |-> "map",
                              idx |-> CHOOSE i \in free : \A j \in free : i <= j])
        ELSE scanned

\* lines 268-272: a single texture that nothing matched is the diffuse map
SingleTexture(reg, assigned) ==
    IF Len(reg) = 1 /\ Len(assigned) = 0 THEN <<[prop |-> "map", idx |-> 1]>>
    ELSE assigned

\* the assignments Map: prop -> registry entry, in insertion order
Assignments(reg) ==
    LET a == SingleTexture(reg, DiffuseFallback(reg, PatternScan(reg)))
    IN  [k \in DOMAIN a |-> [prop |-> a[k].prop, entry |-> reg[a[k].idx]]]

AssignedTo(assignments, prop) ==
    assignments[CHOOSE k \in DOMAIN assignments : assignments[k].prop = prop].entry

\* faulty variant: only forward slashes are taken for path separators
RematchForwardSlashOnly(maps, reg) ==
    [p \in Slots |->
        IF /\ maps[p] # <<>>
           /\ maps[p][1].sourceFile # <<>>
           /\ MapIndex(reg, ToLowerCase(SplitPop(maps[p][1].sourceFile, "/"))) # 0
        THEN <<LoadedTexture(p, reg[MapIndex(reg,
                    ToLowerCase(SplitPop(maps[p][1].sourceFile, "/")))].url)>>
        ELSE maps[p]]

\* lines 281-296: a bound map whose source file name is uploaded is replaced
Rematch(maps, reg) ==
    [p \in Slots |->
        IF /\ maps[p] # <<>>
           /\ maps[p][1].sourceFile # <<>>
           /\ MapIndex(reg, BaseName(maps[p][1].sourceFile)) # 0
        THEN <<LoadedTexture(p, reg[MapIndex(reg, BaseName(maps[p][1].sourceFile))].url)>>
        ELSE maps[p]]

\* faulty variant: every assigned slot is written, bound or not
FillOverwriting(mat, assignments) ==
    [mat EXCEPT
        !.maps = [p \in Slots |->
                    IF HasProp(assignments, p)
                    THEN <<LoadedTexture(p, AssignedTo(assignments, p).url)>>
                    ELSE mat.maps[p]],
        !.emissive = IF HasProp(assignments, "emissiveMap") /\ mat.emissive # NoColor
                     THEN White ELSE mat.emissive]

\* lines 298-314: pattern-matched textures for the maps not already set
Fill(mat, assignments) ==
    [mat EXCEPT
        !.maps = [p \in Slots |->
                    IF mat.maps[p] = <<>> /\ HasProp(assignments, p)
                    THEN <<LoadedTexture(p, AssignedTo(assignments, p).url)>>
                    ELSE mat.maps[p]],
        !.emissive = IF /\ HasProp(assignments, "emissiveMap")
                        /\ mat.maps["emissiveMap"] = <<>>
                        /\ mat.emissive # NoColor
                     THEN White ELSE mat.emissive]

ApplyToMaterial(mat, reg, assignments) ==
    Fill([mat EXCEPT !.maps = Rematch(mat.maps, reg)], assignments)

\* currentObject.traverse: each mesh's material is resolved, in turn
RECURSIVE ApplyToVisited(_, _, _, _)
ApplyToVisited(mats, visits, reg, assignments) ==
    IF visits = <<>> THEN mats
    ELSE ApplyToVisited([mats EXCEPT ![Head(visits)] = ApplyToMaterial(@, reg, assignments)],
                        Tail(visits), reg, assignments)

\* applyUploadedTextures on the object `tree` standing as current object
ApplyUploadedTextures(tree, present, reg) ==
    IF ~present \/ Len(reg) = 0 THEN tree
    ELSE [tree EXCEPT !.mats = ApplyToVisited(tree.mats, Visits(tree.nodes), reg,
                                              Assignments(reg))]

\* faulty variant: only the color-bearing maps are retagged
FixMaterialTexturesColorOnly(mat) ==
    [mat EXCEPT
        !.maps = [p \in Slots |->
                    IF mat.maps[p] # <<>> /\ SlotColorSpace(p) = SRGBColorSpace
                    THEN <<[mat.maps[p][1] EXCEPT !.colorSpace = SRGBColorSpace]>>
                    ELSE mat.maps[p]],
        !.emissive = IF mat.maps["emissiveMap"] # <<>> /\ mat.emissive = Black
                     THEN White ELSE mat.emissive,
        !.transparent = IF mat.maps["alphaMap"] # <<>> THEN TRUE ELSE mat.transparent]

\* fixMaterialTextures (573-606)
FixMaterialTextures(mat) ==
    [mat EXCEPT
        !.maps = [p \in Slots |->
                    IF mat.maps[p] # <<>>
                    THEN <<[mat.maps[p][1] EXCEPT !.colorSpace = SlotColorSpace(p)]>>
                    ELSE mat.maps[p]],
        !.emissive = IF mat.maps["emissiveMap"] # <<>> /\ mat.emissive = Black
                     THEN White ELSE mat.emissive,
        !.emissiveIntensity =
            IF mat.maps["emissiveMap"] # <<>> /\ mat.emissive # NoColor
               /\ mat.emissiveIntensity = 0
            THEN 1 ELSE mat.emissiveIntensity,
        !.transparent = IF mat.maps["alphaMap"] # <<>> THEN TRUE ELSE mat.transparent]

-----------------------------------------------------------------------------
(* handleMTLUpload (193-200), handleTextureUpload (202-220).               *)

\* for (const file of files) this.textureFiles.set(lowercased name, {url, file})
RECURSIVE StoreFiles(_, _)
StoreFiles(reg, files) ==
    IF files = <<>> THEN reg
    ELSE LET key == ToLowerCase(Head(files))
         IN  StoreFiles(MapSet(reg, key, [key |-> key,
                                          url |-> CreateObjectURL(Head(files)),
                                          file |-> Head(files)]),
                        Tail(files))

\* faulty variant: the batch is stored on top of the earlier entries
ReplaceRegistryKeeping(files) == StoreFiles(textureFiles, files)

\* this.textureFiles.clear(), then every file of the batch is stored
ReplaceRegistry(files) == StoreFiles(<<>>, files)

\* faulty variant: textures are resolved before the registry is replaced
TextureUploadAppliesEarly(files) ==
    IF Len(files) = 0 \/ currentObject = NoObject THEN <<>>
    ELSE <<textureFiles>>

\* the calls of applyUploadedTextures the handler makes, each with the
\* registry it finds: one, after the registry is replaced, if a model is loaded
TextureUploadApplies(files) ==
    IF Len(files) = 0 \/ currentObject = NoObject THEN <<>>
    ELSE <<ReplaceRegistry(files)>>

RECURSIVE ApplyEach(_, _)
ApplyEach(tree, registries) ==
    IF registries = <<>> THEN tree
    ELSE ApplyEach(ApplyUploadedTextures(tree, TRUE, Head(registries)), Tail(registries))

HandleTextureUpload(files) ==
    LET applies == TextureUploadApplies(files)
    IN  /\ textureFiles' = IF Len(files) = 0 THEN textureFiles ELSE ReplaceRegistry(files)
        /\ obj' = ApplyEach(obj, applies)
        /\ last' = [Did("handleTextureUpload") EXCEPT
                       !.info = files, !.applySeen = applies]
        /\ UNCHANGED <<isRotating, heldObject, view, framed, sceneChildren, currentObject,
                       hierarchy, wasCurrent, mtlFile,
                       mtlConsumed, loads, spent>>

\* handleIndividualTexture (697-735): the traversal binds the one loaded
\* texture to the slot on the material of each mesh it visits
RECURSIVE BindToVisited(_, _, _, _)
BindToVisited(mats, visits, mapType, texture) ==
    IF visits = <<>> THEN mats
    ELSE BindToVisited(
            [mats EXCEPT ![Head(visits)] =
                [@ EXCEPT !.maps[mapType] = <<texture>>,
                          !.emissive = IF mapType = "emissiveMap" /\ @ # NoColor
                                       THEN White ELSE @,
                          !.transparent = IF mapType = "alphaMap" THEN TRUE ELSE @]],
            Tail(visits), mapType, texture)

HandleIndividualTexture(mapType, files) ==
    /\ obj' = IF Len(files) = 0 \/ currentObject = NoObject THEN obj
              ELSE [obj EXCEPT !.mats =
                      BindToVisited(@, Visits(obj.nodes), mapType,
                                    LoadedTexture(mapType, CreateObjectURL(files[1])))]
    /\ last' = [Did("handleIndividualTexture") EXCEPT !.file = <<mapType>>, !.info = files]
    /\ UNCHANGED <<isRotating, heldObject, view, framed, sceneChildren, currentObject,
                   hierarchy, wasCurrent, textureFiles,
                   mtlFile, mtlConsumed, loads, spent>>

\* faulty variant: an upload event without a file clears the reference
PendingAfterUploadCleared(files) ==
    IF Len(files) = 0 THEN <<>>
    ELSE <<[url |-> CreateObjectURL(files[1]), file |-> files[1]]>>

\* the pending reference after an upload of `files` (event.target.files)
PendingAfterUpload(files) ==
    IF Len(files) = 0 THEN mtlFile
    ELSE <<[url |-> CreateObjectURL(files[1]), file |-> files[1]]>>

HandleMTLUpload(files) ==
    /\ mtlFile' = PendingAfterUpload(files)
    /\ mtlConsumed' = IF Len(files) = 0 THEN mtlConsumed ELSE FALSE
    /\ spent' = IF Len(files) = 0 THEN spent ELSE [i \in DOMAIN spent |-> FALSE]
    /\ last' = [Did("handleMTLUpload") EXCEPT !.info = files]
    /\ UNCHANGED <<isRotating, heldObject, view, framed, sceneChildren, currentObject, obj,
                   hierarchy, wasCurrent, textureFiles,
                   loads>>

-----------------------------------------------------------------------------
(* Model files and what their decoders give.                               *)

\* what a model file holds: a decodable model, or bytes no decoder accepts
Contents == {"single", "textured", "placed", "empty", "point", "shared", "tinted", "bad"}

Decodes(content) == content # "bad"

EmbeddedTexture(sourceFile, colorSpace) == Texture(sourceFile, colorSpace, <<>>)

\* a group with one mesh on one untextured material; the mesh spans
\* 6 x 2 x 2 from the origin
SingleModel ==
    Object3D(<<Group, Mesh("BufferGeometry", <<1>>)>>, <<StandardMaterial(White)>>,
             Box3(Origin, Vector3(Rat(6, 1), Rat(2, 1), Rat(2, 1))))

\* a group with one mesh on a material array: the first material with a
\* diffuse and a normal map that name their source files, the second with
\* an emissive map and a black emissive tint
TexturedModel ==
    Object3D(<<Group, Mesh("BufferGeometry", <<1, 2>>)>>,
             <<[StandardMaterial(White) EXCEPT
                    !.maps = [NoMaps EXCEPT
                        !["map"] = <<EmbeddedTexture(
                            <<"/","p","a","t","h","/","t","o","/","A","l","b","e","d","o",".","p","n","g">>, NoColorSpace)>>,
                        !["normalMap"] = <<EmbeddedTexture(
                            <<"t","e","x","\\","N","o","r","m","a","l",".","p","n","g">>, SRGBColorSpace)>>]],
                 [StandardMaterial(White) EXCEPT
                    !.maps = [NoMaps EXCEPT
                        !["emissiveMap"] = <<EmbeddedTexture(<<>>, NoColorSpace)>>]]>>,
             CenteredBox(One, One, One))

\* a root placed at (10, 5, 3) and scaled by 2 over a 2 x 2 x 2 mesh
PlacedModel ==
    [SingleModel EXCEPT !.position = Vector3(Rat(10, 1), Rat(5, 1), Rat(3, 1)),
                        !.scale = Vector3(Rat(2, 1), Rat(2, 1), Rat(2, 1)),
                        !.box = CenteredBox(One, One, One)]

\* an empty group placed at (10, 5, 3)
EmptyModel ==
    [Object3D(<<Group>>, <<>>, EmptyBox)
        EXCEPT !.position = Vector3(Rat(10, 1), Rat(5, 1), Rat(3, 1))]

\* a mesh whose geometry is the single vertex (1, 1, 1)
PointModel ==
    [SingleModel EXCEPT !.box = Box3(UnitScale, UnitScale)]

\* two meshes on one material
SharedModel ==
    Object3D(<<Group, Mesh("BufferGeometry", <<1>>), Mesh("BufferGeometry", <<1>>)>>,
             <<StandardMaterial(White)>>, CenteredBox(One, One, One))

\* a mesh on a material with a red emissive tint and no emissive map
TintedModel ==
    [SingleModel EXCEPT !.mats = <<[StandardMaterial(White) EXCEPT !.emissive = Red]>>]

Decoded(content) ==
    CASE content = "textured" -> TexturedModel
      [] content = "shared" -> SharedModel
      [] content = "tinted" -> TintedModel
      [] content = "placed" -> PlacedModel
      [] content = "empty" -> EmptyModel
      [] content = "point" -> PointModel
      [] OTHER -> SingleModel

\* material-definition files: MaterialsInfo is what MTLLoader.parse gives
MtlTextured == <<"f","i","r","s","t",".","m","t","l">>
MtlBroken == <<"b","r","o","k","e","n",".","m","t","l">>
MtlFiles == {MtlTextured, MtlBroken}

MtlDecodes(file) == file # MtlBroken

MaterialsInfo(file) ==
    <<[name |-> "Material",
       props |-> <<[key |-> "map_Kd", isString |-> TRUE,
                    value |-> <<"t","e","x","t","u","r","e","s","/","A","l","b","e","d","o",".","p","n","g">>],
                   [key |-> "ka", isString |-> TRUE,
                    value |-> <<"1"," ","1"," ","1">>],
                   [key |-> "kd", isString |-> FALSE,
                    value |-> <<"1"," ","0"," ","0">>]>>]>>

\* faulty variant: the path's file name is looked up as written
OverridePathsAsWritten(info, reg) ==
    IF Len(reg) = 0 THEN info
    ELSE [m \in DOMAIN info |->
            [info[m] EXCEPT !.props =
                [k \in DOMAIN info[m].props |->
                    LET prop == info[m].props[k]
                        texName == SplitPop(SplitPop(prop.value, "/"), "\\")
                    IN  IF prop.isString /\ MapIndex(reg, texName) # 0
                        THEN [prop EXCEPT !.value = reg[MapIndex(reg, texName)].url]
                        ELSE prop]]]

\* lines 376-389: texture paths overridden by uploaded texture blob URLs
OverridePaths(info, reg) ==
    IF Len(reg) = 0 THEN info
    ELSE [m \in DOMAIN info |->
            [info[m] EXCEPT !.props =
                [k \in DOMAIN info[m].props |->
                    LET prop == info[m].props[k] IN
                    IF prop.isString /\ MapIndex(reg, BaseName(prop.value)) # 0
                    THEN [prop EXCEPT
                            !.value = reg[MapIndex(reg, BaseName(prop.value))].url]
                    ELSE prop]]]

\* the value of map_Kd in the first material entry, <<>> when it has none
DiffusePath(info) ==
    LET props == info[1].props
        at == {k \in DOMAIN props : props[k].key = "map_Kd"}
    IN  IF at = {} THEN <<>> ELSE props[CHOOSE k \in at : TRUE].value

\* objLoader.parse(text): with materials bound, the meshes carry the
\* material the descriptor creates; without, default materials
ObjParse(content, materials) ==
    IF materials = <<>> \/ DiffusePath(materials[1]) = <<>> THEN Decoded(content)
    ELSE [Decoded(content) EXCEPT !.mats =
            [m \in DOMAIN Decoded(content).mats |->
                [StandardMaterial(White) EXCEPT
                    !.maps = [NoMaps EXCEPT !["map"] =
                        <<Texture(<<>>, SRGBColorSpace, DiffusePath(materials[1]))>>]]]]

-----------------------------------------------------------------------------
(* handleFileUpload (178-191) and the three loaders (322-488).             *)

ModelNames == {
    <<"m","o","d","e","l",".","f","b","x">>,
    <<"M","O","D","E","L",".","F","B","X">>,
    <<"m","o","d","e","l",".","o","b","j">>,
    <<"m","o","d","e","l",".","g","l","b">>,
    <<"m","o","d","e","l",".","g","l","t","f">>,
    <<"a",".","f","b","x",".","o","b","j">>,
    <<"f","b","x">>,
    <<"s","c","e","n","e",".","t","x","t">>}

\* faulty variant: the extension compared as typed
ExtensionAsTyped(name) == SplitPop(name, ".")

\* the extension: file.name.split('.').pop().toLowerCase()
Extension(name) == ToLowerCase(SplitPop(name, "."))

Loader(ext) ==
    IF ext = <<"f","b","x">> THEN "loadFBXFile"
    ELSE IF ext = <<"o","b","j">> THEN "loadOBJFile"
    ELSE "loadGLTFFile"

\* loadFBXFile / loadOBJFile / loadGLTFFile: a FileReader is started on the file
StartRead(loader, file) ==
    [loader |-> loader, name |-> file.name, content |-> file.content,
     stage |-> "read", mtl |-> <<>>, overtaken |-> FALSE]

\* updateHierarchy(file.name.split('.')[0]): the name up to its first dot
FirstPart(name) ==
    LET at == {i \in DOMAIN name : name[i] = "."}
    IN  IF at = {} THEN name
        ELSE SubSeq(name, 1, (CHOOSE i \in at : \A j \in at : i <= j) - 1)

\* faulty variant: the current object is taken out of the scene before the
\* decoder runs, so a failure leaves the scene without it
DecodeFailedAfterRemove ==
    /\ sceneChildren' = RemoveCurrent
    /\ UNCHANGED <<view, framed, currentObject, obj, hierarchy, wasCurrent>>

\* a decoder that fails does so before the replace step is reached (parse
\* is the first statement of the try block; the GLTF error continuation
\* only reports): the current object and the scene stay as they are
DecodeFailed ==
    UNCHANGED <<view, framed, sceneChildren, currentObject, obj, hierarchy, wasCurrent>>

\* faulty variant: the pending reference is dropped once a load has read it
PendingAfterUseCleared == <<>>

\* a load that finds a material file pending reads it and leaves it pending
PendingAfterUse == mtlFile

HandleFileUpload(files) ==
    /\ Len(files) > 0 => Len(loads) < MaxLoads
    /\ loads' = IF Len(files) = 0 THEN loads
                ELSE Append(loads, StartRead(Loader(Extension(files[1].name)), files[1]))
    /\ spent' = IF Len(files) = 0 THEN spent ELSE Append(spent, mtlConsumed)
    /\ last' = [Did("handleFileUpload") EXCEPT
                   !.file = IF Len(files) = 0 THEN <<>> ELSE files[1].name,
                   !.info = files,
                   !.loaderCalls = IF Len(files) = 0 THEN <<>>
                                   ELSE <<Loader(Extension(files[1].name))>>]
    /\ UNCHANGED <<isRotating, heldObject, view, framed, sceneChildren, currentObject, obj,
                   hierarchy, wasCurrent, textureFiles,
                   mtlFile, mtlConsumed>>

Without(seq, i) == SubSeq(seq, 1, i - 1) \o SubSeq(seq, i + 1, Len(seq))

targetSize == Rat(3, 1)

\* faulty variant: the scale is set to targetSize / maxDim, not multiplied by it
FitObjectToSceneSetScalar(tree) ==
    LET box == SetFromObject(tree)
    IN  IF box = EmptyBox THEN tree
        ELSE LET maxDim == MaxDim(box)
                 scaled == IF RatLess(Zero, maxDim)
                           THEN [tree EXCEPT !.scale =
                                    MultiplyScalar(UnitScale, RatDiv(targetSize, maxDim))]
                           ELSE tree
                 scaledCenter == GetCenter(SetFromObject(scaled))
             IN  [scaled EXCEPT !.position = VecSub(@, scaledCenter)]

\* faulty variant: a node with an empty box is put at the origin all the same
FitObjectToSceneEmptyMoved(tree) ==
    LET box == SetFromObject(tree)
    IN  IF box = EmptyBox THEN [tree EXCEPT !.position = Origin]
        ELSE LET maxDim == MaxDim(box)
                 scaled == IF RatLess(Zero, maxDim)
                           THEN [tree EXCEPT !.scale =
                                    MultiplyScalar(@, RatDiv(targetSize, maxDim))]
                           ELSE tree
             IN  [scaled EXCEPT !.position = VecSub(@, GetCenter(SetFromObject(scaled)))]

\* faulty variant: the position is moved by the center of the box as it was
\* before scaling
FitObjectToSceneStaleCenter(tree) ==
    LET box == SetFromObject(tree)
    IN  IF box = EmptyBox THEN tree
        ELSE LET maxDim == MaxDim(box)
                 scaled == IF RatLess(Zero, maxDim)
                           THEN [tree EXCEPT !.scale =
                                    MultiplyScalar(@, RatDiv(targetSize, maxDim))]
                           ELSE tree
             IN  [scaled EXCEPT !.position = VecSub(@, GetCenter(box))]

\* fitObjectToScene (490-520): nothing on an empty box; else the scale is
\* multiplied by targetSize / maxDim when maxDim > 0, and the position moved
\* by the center of the box recomputed after scaling
FitObjectToScene(tree) ==
    LET box == SetFromObject(tree)
    IN  IF box = EmptyBox THEN tree
        ELSE LET maxDim == MaxDim(box)
                 scaled == IF RatLess(Zero, maxDim)
                           THEN [tree EXCEPT !.scale =
                                    MultiplyScalar(@, RatDiv(targetSize, maxDim))]
                           ELSE tree
                 scaledCenter == GetCenter(SetFromObject(scaled))
             IN  [scaled EXCEPT !.position = VecSub(@, scaledCenter)]

RECURSIVE FixVisited(_, _)
FixVisited(mats, visits) ==
    IF visits = <<>> THEN mats
    ELSE FixVisited([mats EXCEPT ![Head(visits)] = FixMaterialTextures(@)], Tail(visits))

\* shadows on every mesh and color-space fixups on every material
EnableShadows(tree) ==
    [tree EXCEPT
        !.nodes = [n \in DOMAIN tree.nodes |->
                    IF tree.nodes[n].isMesh
                    THEN [tree.nodes[n] EXCEPT !.castShadow = TRUE, !.receiveShadow = TRUE]
                    ELSE tree.nodes[n]],
        !.mats = FixVisited(tree.mats, Visits(tree.nodes))]

Pending(i, loader, stage) ==
    /\ i \in DOMAIN loads
    /\ loads[i].loader = loader
    /\ loads[i].stage = stage

\* history: the loads requested before load i are overtaken when i completes
Overtake(pending, i) ==
    [k \in DOMAIN pending |->
        IF k < i THEN [pending[k] EXCEPT !.overtaken = TRUE] ELSE pending[k]]

\* faulty variant: a completion cancels the loads requested before it
FinishedCancelling(i) ==
    /\ loads' = SubSeq(loads, i + 1, Len(loads))
    /\ spent' = SubSeq(spent, i + 1, Len(spent))

Finished(i) ==
    /\ loads' = Without(Overtake(loads, i), i)
    /\ spent' = Without(spent, i)

\* loadGLTFFile, reader.onload: gltfLoader.parse is given its two continuations
GltfReaderOnload(i) ==
    /\ Pending(i, "loadGLTFFile", "read")
    /\ loads' = [loads EXCEPT ![i].stage = "parse"]
    /\ last' = [Did("gltfReaderOnload") EXCEPT !.index = i, !.overtaken = loads[i].overtaken,
                                               !.loaderCalls = <<"gltfLoader.parse">>]
    /\ UNCHANGED <<isRotating, heldObject, view, framed, sceneChildren, currentObject, obj,
                   hierarchy, wasCurrent, textureFiles,
                   mtlFile, mtlConsumed, spent>>

\* loadGLTFFile, the success continuation (456-482)
GltfOnLoad(i) ==
    /\ Pending(i, "loadGLTFFile", "parse")
    /\ Decodes(loads[i].content)
    /\ Install(EnableShadows(FitObjectToScene(Decoded(loads[i].content))))
    /\ hierarchy' = FirstPart(loads[i].name)
    /\ Finished(i)
    /\ last' = [Did("gltfOnLoad") EXCEPT !.index = i, !.overtaken = loads[i].overtaken]
    /\ UNCHANGED <<isRotating, heldObject, textureFiles, mtlFile, mtlConsumed>>

\* loadGLTFFile, the error continuation (482-485)
GltfOnError(i) ==
    /\ Pending(i, "loadGLTFFile", "parse")
    /\ ~Decodes(loads[i].content)
    /\ Finished(i)
    /\ last' = [Did("gltfOnError") EXCEPT !.index = i, !.overtaken = loads[i].overtaken, !.failed = "gltf",
                                          !.alerts = <<"GLB/GLTF">>]
    /\ DecodeFailed
    /\ UNCHANGED <<isRotating, heldObject, textureFiles, mtlFile, mtlConsumed>>

\* loadFBXFile, reader.onload (406-447): parse, install, fix, apply textures
FbxReaderOnload(i) ==
    /\ Pending(i, "loadFBXFile", "read")
    /\ Finished(i)
    /\ IF Decodes(loads[i].content)
       THEN /\ Install(ApplyUploadedTextures(
                           EnableShadows(FitObjectToScene(Decoded(loads[i].content))),
                           TRUE, textureFiles))
            /\ hierarchy' = FirstPart(loads[i].name)
            /\ last' = [Did("fbxReaderOnload") EXCEPT
                            !.index = i, !.overtaken = loads[i].overtaken, !.loaderCalls = <<"fbxLoader.parse">>,
                            !.applySeen = <<textureFiles>>]
       ELSE /\ last' = [Did("fbxReaderOnload") EXCEPT
                            !.index = i, !.overtaken = loads[i].overtaken, !.loaderCalls = <<"fbxLoader.parse">>,
                            !.failed = "fbx", !.alerts = <<"FBX">>]
            /\ DecodeFailed
    /\ UNCHANGED <<isRotating, heldObject, textureFiles, mtlFile, mtlConsumed>>

\* loadObj (327-364) on the load at i, with the materials bound to the parser
LoadObj(i, op, bound, materials) ==
    /\ Finished(i)
    /\ IF Decodes(loads[i].content)
       THEN /\ Install(ApplyUploadedTextures(
                           EnableShadows(FitObjectToScene(ObjParse(loads[i].content,
                                                                   materials))),
                           TRUE, textureFiles))
            /\ hierarchy' = FirstPart(loads[i].name)
            /\ last' = [Did(op) EXCEPT
                            !.index = i, !.overtaken = loads[i].overtaken, !.loaderCalls = <<"objLoader.parse">>,
                            !.applySeen = <<textureFiles>>, !.mtlBound = bound,
                            !.info = materials, !.spent = spent[i]]
       ELSE /\ last' = [Did(op) EXCEPT
                            !.index = i, !.overtaken = loads[i].overtaken, !.loaderCalls = <<"objLoader.parse">>,
                            !.failed = "obj", !.alerts = <<"OBJ">>, !.mtlBound = bound,
                            !.info = materials, !.spent = spent[i]]
            /\ DecodeFailed

\* loadOBJFile, reader.onload (324-400): the pending material file is read
\* first when there is one, else the geometry is parsed with default materials
ObjReaderOnload(i) ==
    /\ Pending(i, "loadOBJFile", "read")
    /\ IF mtlFile # <<>>
       THEN /\ loads' = [loads EXCEPT ![i].stage = "mtlRead",
                                      ![i].mtl = <<mtlFile[1].file>>]
            /\ last' = [Did("objReaderOnload") EXCEPT
                            !.index = i, !.overtaken = loads[i].overtaken, !.mtlRead = <<mtlFile[1].file>>,
                            !.spent = spent[i]]
            /\ mtlConsumed' = TRUE
            /\ UNCHANGED <<view, framed, sceneChildren, currentObject, obj, hierarchy,
                           wasCurrent, spent>>
       ELSE /\ LoadObj(i, "objReaderOnload", <<>>, <<>>)
            /\ UNCHANGED mtlConsumed
    /\ mtlFile' = PendingAfterUse
    /\ UNCHANGED <<isRotating, heldObject, textureFiles>>

\* loadOBJFile, mtlReader.onload (369-395)
MtlReaderOnload(i) ==
    /\ Pending(i, "loadOBJFile", "mtlRead")
    /\ IF MtlDecodes(loads[i].mtl[1])
       THEN LoadObj(i, "mtlReaderOnload", loads[i].mtl,
                    <<OverridePaths(MaterialsInfo(loads[i].mtl[1]), textureFiles)>>)
       ELSE /\ Finished(i)
            /\ last' = [Did("mtlReaderOnload") EXCEPT
                            !.index = i, !.overtaken = loads[i].overtaken, !.loaderCalls = <<"mtlLoader.parse">>,
                            !.failed = "mtl", !.thrown = TRUE]
            /\ DecodeFailed
    /\ UNCHANGED <<isRotating, heldObject, textureFiles, mtlFile, mtlConsumed>>

-----------------------------------------------------------------------------
(* toggleRotation (637-639), animate (737-750), resetCamera (655-665), and *)
(* what a caller does with the viewer's public members: moving the camera, *)
(* clearing currentObject, and fitObjectToScene on an object of its own.   *)

MaxFrames == 3      \* animation frames that rotate one object
MaxFits == 2        \* fitObjectToScene calls on one held object

ToggleRotation ==
    /\ isRotating' = ~isRotating
    /\ last' = Did("toggleRotation")
    /\ UNCHANGED <<sceneChildren, currentObject, obj, hierarchy, wasCurrent, textureFiles,
                   mtlFile, mtlConsumed, loads, spent, view, framed, heldObject>>

\* faulty variant: the object turns whether rotation is enabled or not
RotatedAlways(tree, present, rotating) ==
    IF present
    THEN [tree EXCEPT !.rotation = VecAdd(@, Vector3(Rat(5, 1000), Rat(1, 100), Zero))]
    ELSE tree

\* lines 741-744: rotation.x += 0.005, rotation.y += 0.01
Rotated(tree, present, rotating) ==
    IF present /\ rotating
    THEN [tree EXCEPT !.rotation = VecAdd(@, Vector3(Rat(5, 1000), Rat(1, 100), Zero))]
    ELSE tree

\* one frame; controls.update() without user input leaves the view
Animate ==
    /\ (currentObject # NoObject /\ isRotating) =>
            RatLess(obj.rotation[1], Rat(5 * MaxFrames, 1000))
    /\ obj' = Rotated(obj, currentObject # NoObject, isRotating)
    /\ last' = Did("animate")
    /\ UNCHANGED <<sceneChildren, currentObject, hierarchy, wasCurrent, textureFiles,
                   mtlFile, mtlConsumed, loads, spent, view, framed, isRotating,
                   heldObject>>

DefaultPosition == Vector3(Zero, Zero, Rat(5, 1))

\* faulty variant: the fixed default pose whether an object exists or not
ResetCameraDefaultPose(v, present, tree) ==
    [v EXCEPT !.position = SurdVector(DefaultPosition), !.target = Origin]

\* resetCamera on the view v with `tree` standing as current object
ResetCameraView(v, present, tree) ==
    IF present THEN FrameCameraOnObject(v, TRUE, tree)
    ELSE [v EXCEPT !.position = SurdVector(DefaultPosition), !.target = Origin]

ResetCamera ==
    /\ view' = ResetCameraView(view, currentObject # NoObject, obj)
    /\ last' = Did("resetCamera")
    /\ UNCHANGED <<sceneChildren, currentObject, obj, hierarchy, wasCurrent, textureFiles,
                   mtlFile, mtlConsumed, loads, spent, framed, isRotating, heldObject>>

\* camera.position.set(...), controls.target.set(...) by the caller
\* (part_000 953, 960), or the user orbiting and panning
CameraPoses ==
    {[position |-> Vector3(Rat(10, 1), Rat(10, 1), Rat(10, 1)),
      target |-> Vector3(Rat(5, 1), Rat(5, 1), Rat(5, 1))],
     [position |-> Vector3(Rat(10, 1), Rat(10, 1), Rat(10, 1)), target |-> Origin]}

MoveCamera(pose) ==
    /\ view' = [view EXCEPT !.position = SurdVector(pose.position),
                            !.target = pose.target]
    /\ last' = Did("moveCamera")
    /\ UNCHANGED <<sceneChildren, currentObject, obj, hierarchy, wasCurrent, textureFiles,
                   mtlFile, mtlConsumed, loads, spent, framed, isRotating, heldObject>>

\* renderer.currentObject = null by the caller (part_000 935), once: the
\* object stays in the scene
DropCurrentObject ==
    /\ currentObject # NoObject
    /\ wasCurrent = {}
    /\ currentObject' = NoObject
    /\ obj' = NoObjectTree
    /\ wasCurrent' = {currentObject}
    /\ framed' = <<>>
    /\ last' = Did("dropCurrentObject")
    /\ UNCHANGED <<sceneChildren, hierarchy, textureFiles, mtlFile, mtlConsumed, loads,
                   spent, view, isRotating, heldObject>>

\* the objects a caller constructs (part_000 787-791, 804-807, 819): a mesh
\* of 2 x 2 x 2 placed at (10, 5, 3), a mesh of 6 x 6 x 6, an empty group;
\* and a mesh of 1.5 x 1.5 x 1.5 scaled by 2
PlacedMesh ==
    [Object3D(<<Mesh("BoxGeometry", <<1>>)>>, <<StandardMaterial(White)>>,
              CenteredBox(One, One, One))
        EXCEPT !.position = Vector3(Rat(10, 1), Rat(5, 1), Rat(3, 1))]
LargeMesh ==
    Object3D(<<Mesh("BoxGeometry", <<1>>)>>, <<StandardMaterial(White)>>,
             CenteredBox(Rat(3, 1), Rat(3, 1), Rat(3, 1)))
EmptyGroup == Object3D(<<Group>>, <<>>, EmptyBox)
FittedMesh ==
    [Object3D(<<Mesh("BoxGeometry", <<1>>)>>, <<StandardMaterial(White)>>,
              CenteredBox(Rat(3, 4), Rat(3, 4), Rat(3, 4)))
        EXCEPT !.scale = Vector3(Rat(2, 1), Rat(2, 1), Rat(2, 1))]

HeldObjects == {PlacedMesh, LargeMesh, EmptyGroup, FittedMesh}

HoldObject(tree) ==
    /\ heldObject' = [tree |-> tree, fits |-> 0]
    /\ last' = Did("holdObject")
    /\ UNCHANGED <<sceneChildren, currentObject, obj, hierarchy, wasCurrent, textureFiles,
                   mtlFile, mtlConsumed, loads, spent, view, framed, isRotating>>

\* fitObjectToScene(object) called on the held object: the object is fitted
\* and, unless its box is empty, frameCameraOnObject() runs (519), which
\* frames this.currentObject
FitHeldObject ==
    /\ heldObject.tree # NoObjectTree
    /\ heldObject.fits < MaxFits
    /\ heldObject' = [tree |-> FitObjectToScene(heldObject.tree),
                      fits |-> heldObject.fits + 1]
    /\ view' = IF SetFromObject(heldObject.tree) = EmptyBox THEN view
               ELSE FrameCameraOnObject(view, currentObject # NoObject, obj)
    /\ last' = Did("fitObjectToScene")
    /\ UNCHANGED <<sceneChildren, currentObject, obj, hierarchy, wasCurrent, textureFiles,
                   mtlFile, mtlConsumed, loads, spent, framed, isRotating>>

\* the caller holds no object yet
NotHeld == [tree |-> NoObjectTree, fits |-> 0]

-----------------------------------------------------------------------------
(* The viewer after construction (constructor 9-31, init 33-91): the four  *)
(* lights in the scene and the default cube loaded by init().              *)

Init ==
    /\ sceneChildren = <<ambientLight, directionalLight, pointLight1, pointLight2,
                         FirstObjectId>>
    /\ currentObject = FirstObjectId
    /\ obj = ShapeObject("cube")
    /\ hierarchy = Capitalized("cube")
    /\ wasCurrent = {}
    /\ textureFiles = <<>>
    /\ mtlFile = <<>>
    /\ mtlConsumed = FALSE
    /\ loads = <<>>
    /\ spent = <<>>
    /\ last = Did("constructor")
    /\ view = FrameCameraOnObject(InitialView, TRUE, ShapeObject("cube"))
    /\ framed = Framed(InitialView, TRUE, ShapeObject("cube"))
    /\ isRotating = FALSE
    /\ heldObject = NotHeld

-----------------------------------------------------------------------------
(* Inputs.                                                                 *)

\* event.target.files of a single-file input: no file, or one of `files`
Picked(files) == {<<>>} \cup {<<f>> : f \in files}

\* texture files the user picks from; a batch is a selection of distinct files
TextureNames == {
    <<"D","i","f","f","u","s","e","_","M","A","P",".","P","N","G">>,
    <<"d","i","f","f","u","s","e","_","m","a","p",".","p","n","g">>,
    <<"f","o","o",".","p","n","g">>}

Batches ==
    {<<>>} \cup {b \in UNION {[1..n -> TextureNames] : n \in 1..MaxBatch} :
                    \A i, j \in DOMAIN b : b[i] = b[j] => i = j}

ModelFiles == [name : ModelNames, content : {"single", "bad"}]

\* one file per loader and per decoder outcome
PipelineFiles ==
    [name : {<<"m",".","f","b","x">>, <<"m",".","o","b","j">>, <<"m",".","g","l","b">>},
     content : {"single", "bad"}]

LoadStep ==
    \/ \E i \in DOMAIN loads : GltfReaderOnload(i)
    \/ \E i \in DOMAIN loads : GltfOnLoad(i)
    \/ \E i \in DOMAIN loads : GltfOnError(i)
    \/ \E i \in DOMAIN loads : FbxReaderOnload(i)
    \/ \E i \in DOMAIN loads : ObjReaderOnload(i)
    \/ \E i \in DOMAIN loads : MtlReaderOnload(i)

-----------------------------------------------------------------------------
(* The loading pipeline: shapes, model uploads with loads completing in    *)
(* any order, and material-definition uploads.                             *)

Next ==
    \/ \E shapeType \in {"cube", "teapot"} : LoadShape(shapeType)
    \/ \E files \in Picked(MtlFiles) : HandleMTLUpload(files)
    \/ \E files \in Picked(PipelineFiles) : HandleFileUpload(files)
    \/ LoadStep

Spec == Init /\ [][Next]_vars

(* The built-in shapes with the color and wireframe controls.              *)

NextShapes ==
    \/ \E shapeType \in ShapeTypes : LoadShape(shapeType)
    \/ \E color \in Colors : UpdateObjectColor(color)
    \/ ToggleWireframe

SpecShapes == Init /\ [][NextShapes]_vars

(* Upload routing: every file name, the loads running to completion.       *)

NextRouting ==
    \/ \E files \in Picked(ModelFiles) : HandleFileUpload(files)
    \/ \E i \in DOMAIN loads : GltfReaderOnload(i)
    \/ \E i \in DOMAIN loads : GltfOnLoad(i)
    \/ \E i \in DOMAIN loads : GltfOnError(i)
    \/ \E i \in DOMAIN loads : FbxReaderOnload(i)
    \/ \E i \in DOMAIN loads : ObjReaderOnload(i)

SpecRouting == Init /\ [][NextRouting]_vars

(* Texture and material-definition uploads on shapes and a textured model. *)

NextUploads ==
    \/ \E files \in Batches : HandleTextureUpload(files)
    \/ \E files \in Picked(MtlFiles) : HandleMTLUpload(files)
    \/ \E shapeType \in {"cube", "teapot"} : LoadShape(shapeType)

SpecUploads == Init /\ [][NextUploads]_vars

(* Texture resolution by file name: batches of named files on the cube.    *)

ResolveNames == {
    <<"D","i","f","f","u","s","e","_","M","A","P",".","P","N","G">>,
    <<"N","o","r","m","a","l",".","p","n","g">>,
    <<"f","o","o",".","p","n","g">>,
    <<"c","o","l","o","r","_","n","o","r","m","a","l",".","p","n","g">>}

\* the selections of at most MaxBatch distinct files, in every order
Selections(names) ==
    {<<>>} \cup {b \in UNION {[1..n -> names] : n \in 1..MaxBatch} :
                    \A i, j \in DOMAIN b : b[i] = b[j] => i = j}

NextResolve ==
    \/ \E files \in Selections(ResolveNames) : HandleTextureUpload(files)
    \/ LoadShape("cube")

SpecResolve == Init /\ [][NextResolve]_vars

(* Texture resolution on a model whose materials come with bound textures; *)
(* the model file is picked when no load is in flight.                     *)

RematchNames == {
    <<"A","l","b","e","d","o",".","p","n","g">>,
    <<"N","o","r","m","a","l",".","p","n","g">>,
    <<"c","o","l","o","r","_","n","o","r","m","a","l",".","p","n","g">>}

TexturedGltf == [name |-> <<"m",".","g","l","b">>, content |-> "textured"]

NextRematch ==
    \/ \E files \in Selections(RematchNames) : HandleTextureUpload(files)
    \/ loads = <<>> /\ HandleFileUpload(<<TexturedGltf>>)
    \/ \E i \in DOMAIN loads : GltfReaderOnload(i)
    \/ \E i \in DOMAIN loads : GltfOnLoad(i)

SpecRematch == Init /\ [][NextRematch]_vars

(* Scene normalization: models of several extents and placements through   *)
(* the GLTF and the FBX loader.                                            *)

FitFiles ==
    [name : {<<"m",".","f","b","x">>, <<"m",".","g","l","b">>},
     content : {"single", "placed", "empty", "point", "bad"}]

NextFit ==
    \/ \E files \in Picked(FitFiles) : HandleFileUpload(files)
    \/ \E i \in DOMAIN loads : GltfReaderOnload(i)
    \/ \E i \in DOMAIN loads : GltfOnLoad(i)
    \/ \E i \in DOMAIN loads : GltfOnError(i)
    \/ \E i \in DOMAIN loads : FbxReaderOnload(i)

SpecFit == Init /\ [][NextFit]_vars

(* Textures across the three loaders: a textured model through the GLTF    *)
(* and the FBX loader, an OBJ model with or without a material-definition  *)
(* file, batch uploads and uploads to a single slot; a model file is       *)
(* picked when no load is in flight.                                       *)

TextureBatchNames == {
    <<"A","l","b","e","d","o",".","p","n","g">>,
    <<"c","o","l","o","r","_","n","o","r","m","a","l",".","p","n","g">>}

SlotFile == <<"f","o","o",".","p","n","g">>

TexturedFiles == {
    [name |-> <<"m",".","g","l","b">>, content |-> "textured"],
    [name |-> <<"m",".","f","b","x">>, content |-> "textured"],
    [name |-> <<"m",".","o","b","j">>, content |-> "single"]}

NextTextures ==
    \/ \E files \in Selections(TextureBatchNames) : HandleTextureUpload(files)
    \/ \E mapType \in {"map", "normalMap"} : HandleIndividualTexture(mapType, <<SlotFile>>)
    \/ HandleMTLUpload(<<MtlTextured>>)
    \/ \E file \in TexturedFiles : loads = <<>> /\ HandleFileUpload(<<file>>)
    \/ \E i \in DOMAIN loads : GltfReaderOnload(i)
    \/ \E i \in DOMAIN loads : GltfOnLoad(i)
    \/ \E i \in DOMAIN loads : FbxReaderOnload(i)
    \/ \E i \in DOMAIN loads : ObjReaderOnload(i)
    \/ \E i \in DOMAIN loads : MtlReaderOnload(i)

SpecTextures == Init /\ [][NextTextures]_vars

(* The toggles and the animation frame, on shapes of every kind of name   *)
(* and on a model whose meshes share a material.                           *)

UnknownShape == "pyramid"

SharedFbx == [name |-> <<"s",".","f","b","x">>, content |-> "shared"]

NextToggles ==
    \/ ToggleRotation
    \/ Animate
    \/ ToggleWireframe
    \/ DropCurrentObject
    \/ \E shapeType \in {"cube", "teapot", UnknownShape} : LoadShape(shapeType)
    \/ loads = <<>> /\ HandleFileUpload(<<SharedFbx>>)
    \/ \E i \in DOMAIN loads : FbxReaderOnload(i)

SpecToggles == Init /\ [][NextToggles]_vars

(* The camera: reset, moves by the caller, the framing that comes with a   *)
(* new current object, and fitObjectToScene on objects the caller holds.   *)

EmptyFbx == [name |-> <<"e",".","f","b","x">>, content |-> "empty"]

NextCamera ==
    \/ ResetCamera
    \/ \E pose \in CameraPoses : MoveCamera(pose)
    \/ DropCurrentObject
    \/ \E shapeType \in {"cube", "teapot"} : LoadShape(shapeType)
    \/ \E tree \in HeldObjects : HoldObject(tree)
    \/ FitHeldObject
    \/ loads = <<>> /\ HandleFileUpload(<<EmptyFbx>>)
    \/ \E i \in DOMAIN loads : FbxReaderOnload(i)

SpecCamera == Init /\ [][NextCamera]_vars

(* Overlapping loads: models that differ, completing in any order, and a   *)
(* shape loaded in between.                                                *)

OverlapFiles == {
    [name |-> <<"a",".","g","l","b">>, content |-> "single"],
    [name |-> <<"b",".","f","b","x">>, content |-> "shared"],
    [name |-> <<"c",".","o","b","j">>, content |-> "tinted"]}

NextOverlap ==
    \/ LoadShape("sphere")
    \/ \E file \in OverlapFiles : HandleFileUpload(<<file>>)
    \/ \E i \in DOMAIN loads : GltfReaderOnload(i)
    \/ \E i \in DOMAIN loads : GltfOnLoad(i)
    \/ \E i \in DOMAIN loads : FbxReaderOnload(i)
    \/ \E i \in DOMAIN loads : ObjReaderOnload(i)

SpecOverlap == Init /\ [][NextOverlap]_vars

(* Emissive maps: files named for the emissive slot on models with and     *)
(* without an emissive tint.                                               *)

EmissiveNames == {
    <<"g","l","o","w",".","p","n","g">>,
    <<"f","o","o",".","p","n","g">>}

EmissiveFiles == {
    [name |-> <<"t",".","f","b","x">>, content |-> "tinted"],
    [name |-> <<"m",".","f","b","x">>, content |-> "textured"]}

NextEmissive ==
    \/ \E files \in Selections(EmissiveNames) : HandleTextureUpload(files)
    \/ \E file \in EmissiveFiles : loads = <<>> /\ HandleFileUpload(<<file>>)
    \/ \E i \in DOMAIN loads : FbxReaderOnload(i)
    \/ LoadShape("cube")

SpecEmissive == Init /\ [][NextEmissive]_vars

-----------------------------------------------------------------------------
(* Properties of the loading pipeline (Spec).                              *)

\* the callback just run replaced the current object
Installed ==
    \/ last.op \in {"loadShape", "gltfOnLoad"}
    \/ /\ last.loaderCalls \in {<<"fbxLoader.parse">>, <<"objLoader.parse">>}
       /\ last.failed = ""

\* C1: after any sequence of loadShape calls and successful load completions,
\* in any order of completion, the current object is a direct child of the
\* scene and no object that was current before is still a child of the scene.
C1_OnlyCurrentObjectInScene ==
    /\ currentObject \in Range(sceneChildren)
    /\ wasCurrent \cap Range(sceneChildren) = {}

\* a load requested second completes first and installs its object, the
\* earlier load still in flight
C1_Witness ==
    /\ Installed
    /\ last.index = 2
    /\ Len(loads) >= 1
    /\ currentObject \in Range(sceneChildren)

\* C2: a step in which a decoder fails (the GLTF error continuation, a throw
\* in the FBX or the OBJ parser), and every step of a load before its
\* decoder has run, leaves the current object and the children of the scene
\* as they were: the previous object is never removed without a replacement.
C2_FailedLoadKeepsObject ==
    [][(\/ last'.failed \in {"gltf", "fbx", "obj"}
        \/ last'.op \in {"handleFileUpload", "gltfReaderOnload"}
        \/ last'.op = "objReaderOnload" /\ last'.mtlRead # <<>>)
       => /\ currentObject' = currentObject
          /\ sceneChildren' = sceneChildren
          /\ currentObject' \in Range(sceneChildren')]_vars

\* an OBJ parse has just failed on a viewer that shows a model
C2_Witness ==
    /\ last.failed = "obj"
    /\ last.alerts = <<"OBJ">>
    /\ currentObject \in Range(sceneChildren)
    /\ hierarchy = <<"m">>

\* C3: every decode failure, a throw while the pending material file is
\* decoded on the OBJ path included, is caught and ends in an alert naming
\* the format; no exception escapes the load callback.
C3_EveryDecodeFailureAlerts ==
    last.failed # "" => (Len(last.alerts) = 1 /\ ~last.thrown)

-----------------------------------------------------------------------------
(* Properties of upload routing (SpecRouting).                             *)

\* the text after the last dot of a name (the whole name if it has no dot),
\* lowercased
AfterLastDot(name) ==
    LET dots == {i \in DOMAIN name : name[i] = "."}
        from == IF dots = {} THEN 0
                ELSE CHOOSE i \in dots : \A j \in dots : j <= i
    IN  [k \in 1..(Len(name) - from) |-> ToLowerChar(name[from + k])]

\* C4: handleFileUpload calls exactly one loader, chosen by the lowercased
\* text after the last dot of the file name: "fbx" the FBX loader, "obj" the
\* OBJ loader, anything else the GLTF loader; with no file, no loader.
C4_OneLoaderByExtension ==
    last.op = "handleFileUpload" =>
        IF last.info = <<>> THEN last.loaderCalls = <<>>
        ELSE LET ext == AfterLastDot(last.info[1].name)
                 expected == CASE ext = <<"f","b","x">> -> "loadFBXFile"
                               [] ext = <<"o","b","j">> -> "loadOBJFile"
                               [] OTHER -> "loadGLTFFile"
             IN  /\ last.loaderCalls = <<expected>>
                 /\ loads # <<>>
                 /\ loads[Len(loads)].loader = expected
                 /\ loads[Len(loads)].stage = "read"

\* an upper-case FBX name has just been routed to the FBX loader
C4_Witness ==
    /\ last.op = "handleFileUpload"
    /\ last.info # <<>>
    /\ last.info[1].name = <<"M","O","D","E","L",".","F","B","X">>
    /\ last.loaderCalls = <<"loadFBXFile">>

-----------------------------------------------------------------------------
(* Properties of texture and material-definition uploads (SpecUploads).    *)

\* C5: after handleTextureUpload with a non-empty batch the keys of the
\* registry are the lowercased names of that batch and nothing else, so no
\* entry of an earlier batch survives; names equal up to case leave one entry
\* that holds the later file; an empty batch leaves the registry as it was.
C5_RegistryIsLastBatch ==
    [][last'.op = "handleTextureUpload" =>
        IF last'.info = <<>> THEN textureFiles' = textureFiles
        ELSE LET batch == last'.info
                 reg == textureFiles'
                 Lower(n) == [k \in DOMAIN n |-> ToLowerChar(n[k])]
             IN  /\ {reg[i].key : i \in DOMAIN reg} = {Lower(batch[j]) : j \in DOMAIN batch}
                 /\ \A i, j \in DOMAIN reg : reg[i].key = reg[j].key => i = j
                 /\ \A i \in DOMAIN reg :
                      LET same == {j \in DOMAIN batch : Lower(batch[j]) = reg[i].key}
                      IN  reg[i].file = batch[CHOOSE j \in same : \A k \in same : k <= j]
    ]_vars

\* a batch of two names equal up to case has left one entry, the later file
C5_Witness ==
    /\ last.op = "handleTextureUpload"
    /\ Len(last.info) = 2
    /\ Len(textureFiles) = 1
    /\ textureFiles[1].file = last.info[2]
    /\ textureFiles[1].file # textureFiles[1].key

\* C6: handleTextureUpload with a non-empty batch resolves textures exactly
\* once, with the registry as replaced by the batch, if there is a current
\* object, and not at all if there is none.
C6_ResolvesOnceAfterReplace ==
    (last.op = "handleTextureUpload" /\ last.info # <<>>) =>
        last.applySeen = IF currentObject # NoObject THEN <<textureFiles>> ELSE <<>>

\* a batch of two files has been resolved on the current object: its diffuse
\* slot is filled from the registry as it is now
C6_Witness ==
    /\ last.op = "handleTextureUpload"
    /\ last.applySeen = <<textureFiles>>
    /\ Len(textureFiles) = 2
    /\ currentObject # NoObject
    /\ obj.mats[1].maps.map # <<>>

\* C7: handleMTLUpload changes the pending material reference only: with a
\* file the reference is that file, with no file it is what it was; the
\* current object, its materials, the scene and the texture registry stay.
C7_OnlyPendingReferenceChanges ==
    [][last'.op = "handleMTLUpload" =>
        /\ IF last'.info = <<>> THEN mtlFile' = mtlFile
           ELSE Len(mtlFile') = 1 /\ mtlFile'[1].file = last'.info[1]
        /\ UNCHANGED <<sceneChildren, currentObject, obj, textureFiles>>]_vars

\* an upload event without a file on a viewer with a pending material file
\* and a filled registry
C7_Witness ==
    /\ last.op = "handleMTLUpload"
    /\ last.info = <<>>
    /\ mtlFile # <<>>
    /\ textureFiles # <<>>

-----------------------------------------------------------------------------
(* Properties of the pending material file in the pipeline (Spec).         *)

\* C8, as stated: the uploaded material file is consumed by the next OBJ load
\* only; an OBJ load requested after the file has been handed to an earlier
\* OBJ load, with no upload in between, is parsed with default materials.
C8_ConsumedByNextObjLoadOnly ==
    (last.loaderCalls = <<"objLoader.parse">> /\ last.spent) => last.mtlBound = <<>>

\* C8, as the code has it: an OBJ load that finds a material file pending
\* hands it to the reader and leaves it pending, and parses its geometry
\* with the materials of the file it read; the other loaders use no
\* material file.
C8_PendingFileServesEveryObjLoad ==
    [][/\ (last'.op = "objReaderOnload" /\ mtlFile # <<>>) =>
            (last'.mtlRead = <<mtlFile[1].file>> /\ mtlFile' = mtlFile)
       /\ (last'.op = "mtlReaderOnload" /\ last'.failed = "") =>
            (last'.mtlBound # <<>> /\ last'.info # <<>> /\ mtlFile' = mtlFile)
       /\ last'.op \in {"gltfReaderOnload", "gltfOnLoad", "gltfOnError",
                        "fbxReaderOnload"} =>
            (last'.mtlRead = <<>> /\ last'.mtlBound = <<>> /\ mtlFile' = mtlFile)]_vars

\* a second OBJ load, requested after the first had read the pending file,
\* has been parsed with the materials of the same file
C8_Witness ==
    /\ last.op = "mtlReaderOnload"
    /\ last.spent
    /\ last.mtlBound = <<MtlTextured>>
    /\ mtlFile # <<>>
    /\ mtlFile[1].file = MtlTextured

-----------------------------------------------------------------------------
(* Properties of the built-in shapes (SpecShapes).                         *)

\* C9: for each of the six shape kinds the node installed by loadShape casts
\* and receives shadows and its material has the base color 0x4a90e2.
C9_ShapesShadowedInBaseColor ==
    last.op = "loadShape" =>
        /\ obj.nodes[1].castShadow
        /\ obj.nodes[1].receiveShadow
        /\ \A m \in DOMAIN obj.mats : obj.mats[m].color = BaseColor

\* C10: the teapot has exactly five parts under its group, all on one
\* material instance, and after any sequence of updateObjectColor and
\* toggleWireframe the five show the same color and the same wireframe flag.
C10_TeapotPartsShareMaterial ==
    hierarchy = Capitalized("teapot") =>
        LET parts == {n \in DOMAIN obj.nodes : n > 1}
        IN  /\ ~obj.nodes[1].isMesh
            /\ Cardinality(parts) = 5
            /\ \A p \in parts : obj.nodes[p].isMesh /\ Len(obj.nodes[p].material) = 1
            /\ \A p, q \in parts :
                 /\ obj.nodes[p].material = obj.nodes[q].material
                 /\ obj.mats[obj.nodes[p].material[1]].color
                      = obj.mats[obj.nodes[q].material[1]].color
                 /\ obj.mats[obj.nodes[p].material[1]].wireframe
                      = obj.mats[obj.nodes[q].material[1]].wireframe

\* a teapot recolored and switched to wireframe
C10_Witness ==
    /\ hierarchy = Capitalized("teapot")
    /\ last.op = "toggleWireframe"
    /\ obj.mats[1].color = White
    /\ obj.mats[1].wireframe

-----------------------------------------------------------------------------
(* Properties of scene normalization (SpecFit).                            *)

\* the step is a successful GLTF or FBX completion, which fits the decoded
\* node of load last'.index
FitStep ==
    /\ last'.op \in {"gltfOnLoad", "fbxReaderOnload"}
    /\ last'.failed = ""

\* the extent of a node's box along axis k in world units, and the greatest
Extent(node, k) ==
    RatMul(Rat(Abs(node.scale[k][1]), node.scale[k][2]),
           RatSub(node.box[1].max[k], node.box[1].min[k]))
GreatestExtent(node) ==
    CHOOSE e \in {Extent(node, k) : k \in 1..3} :
        \A k \in 1..3 : ~RatLess(e, Extent(node, k))

\* C19: fitObjectToScene on a node with an empty bounding box does not raise
\* and leaves the node's scale (1) and its position as they were; the scale
\* is divided by the maximum extent only when that extent is greater than 0.
C19_EmptyBoxLeftAlone ==
    [][FitStep =>
        LET node == Decoded(loads[last'.index].content)
        IN  /\ node.box = EmptyBox =>
                /\ obj'.scale = node.scale
                /\ obj'.scale = <<<<1, 1>>, <<1, 1>>, <<1, 1>>>>
                /\ obj'.position = node.position
                /\ last'.alerts = <<>> /\ ~last'.thrown
            /\ (node.box # EmptyBox /\ GreatestExtent(node) = <<0, 1>>) =>
                obj'.scale = node.scale]_vars

\* an empty group placed away from the origin has been loaded and kept its
\* placement
C19_Witness ==
    /\ last.op = "gltfOnLoad"
    /\ obj.box = EmptyBox
    /\ obj.nodes = <<Group>>
    /\ obj.scale = <<<<1, 1>>, <<1, 1>>, <<1, 1>>>>
    /\ obj.position = <<<<10, 1>>, <<5, 1>>, <<3, 1>>>>

\* C20: on a node with a non-empty box of maximum extent maxDim > 0,
\* fitObjectToScene multiplies the scale on every axis by 3 / maxDim and then
\* moves the node so that the center of its bounding box is the world origin.
C20_ScaledToThreeAndCentered ==
    [][FitStep =>
        LET node == Decoded(loads[last'.index].content)
        IN  (node.box # EmptyBox /\ RatLess(<<0, 1>>, GreatestExtent(node))) =>
                \A k \in 1..3 :
                    /\ RatMul(obj'.scale[k], GreatestExtent(node))
                         = RatMul(node.scale[k], <<3, 1>>)
                    /\ RatAdd(RatMul(obj'.scale[k], obj'.box[1].min[k]),
                              RatMul(obj'.scale[k], obj'.box[1].max[k]))
                         = RatMul(<<-2, 1>>, obj'.position[k])]_vars

\* a mesh of maximum extent 6 lying off the origin has been scaled by one
\* half on every axis and moved
C20_Witness ==
    /\ last.op = "fbxReaderOnload"
    /\ last.failed = ""
    /\ obj.box = <<[min |-> <<<<0, 1>>, <<0, 1>>, <<0, 1>>>>,
                    max |-> <<<<6, 1>>, <<2, 1>>, <<2, 1>>>>]>>
    /\ obj.scale = <<<<1, 2>>, <<1, 2>>, <<1, 2>>>>
    /\ obj.position = <<<<-3, 2>>, <<-1, 2>>, <<-1, 2>>>>

-----------------------------------------------------------------------------
(* Properties of texture resolution by file name (SpecResolve).            *)

\* the name of registry entry i as uploaded, lowercased
LoweredName(reg, i) == [k \in DOMAIN reg[i].file |-> ToLowerChar(reg[i].file[k])]

\* text s contains text q
Contains(s, q) ==
    \E i \in 1..(Len(s) - Len(q) + 1) : SubSeq(s, i, i + Len(q) - 1) = q

PatternsOf(p) ==
    textureMapTypes[CHOOSE t \in DOMAIN textureMapTypes : textureMapTypes[t].prop = p].patterns

\* the first entry of reg whose name contains a pattern of slot p (0: none)
FirstHolding(reg, p) ==
    LET holding == {i \in DOMAIN reg : \E q \in PatternsOf(p) : Contains(LoweredName(reg, i), q)}
    IN  IF holding = {} THEN 0 ELSE CHOOSE i \in holding : \A j \in holding : i <= j

\* the step resolves a non-empty batch on an object none of whose materials
\* has a texture bound
ResolvesOnBlank ==
    /\ last'.op = "handleTextureUpload"
    /\ last'.info # <<>>
    /\ \A m \in DOMAIN obj.mats : obj.mats[m].maps = NoMaps

\* slot p of material m holds a texture loaded from the locator url
HoldsUrl(tree, m, p, url) ==
    tree.mats[m].maps[p] # <<>> /\ tree.mats[m].maps[p][1].url = url

\* C11: in the pattern-based fill each slot gets the first registry entry, in
\* registry order, whose name contains one of the slot's patterns, compared
\* case-insensitively, and no entry if none does (the diffuse slot then falls
\* to the fallback rule); Diffuse_MAP.PNG and Normal.png on a material without
\* textures fill the diffuse and the normal slot.
C11_FirstEntryHoldingAPattern ==
    [][ResolvesOnBlank =>
        \A m \in DOMAIN obj'.mats :
            /\ \A p \in Slots :
                 LET first == FirstHolding(textureFiles', p)
                 IN  IF first # 0
                     THEN HoldsUrl(obj', m, p,
                                   <<"b","l","o","b",":">> \o textureFiles'[first].file)
                     ELSE p # "map" => obj'.mats[m].maps[p] = <<>>
            /\ last'.info = << <<"D","i","f","f","u","s","e","_","M","A","P",".","P","N","G">>,
                               <<"N","o","r","m","a","l",".","p","n","g">> >>
                 => /\ HoldsUrl(obj', m, "map",
                          <<"b","l","o","b",":","D","i","f","f","u","s","e","_","M","A","P",".","P","N","G">>)
                    /\ HoldsUrl(obj', m, "normalMap",
                          <<"b","l","o","b",":","N","o","r","m","a","l",".","p","n","g">>)]_vars

\* two files that both name the normal slot were uploaded and the first of
\* the batch fills it
C11_Witness ==
    /\ last.op = "handleTextureUpload"
    /\ last.info = << <<"N","o","r","m","a","l",".","p","n","g">>,
                      <<"c","o","l","o","r","_","n","o","r","m","a","l",".","p","n","g">> >>
    /\ HoldsUrl(obj, 1, "normalMap", <<"b","l","o","b",":","N","o","r","m","a","l",".","p","n","g">>)
    /\ HoldsUrl(obj, 1, "map",
         <<"b","l","o","b",":","c","o","l","o","r","_","n","o","r","m","a","l",".","p","n","g">>)

\* C12: in the slot-to-file assignment that texture resolution builds, no
\* uploaded file is assigned to more than one slot, whatever the registry.
C12_NoFileInTwoSlots ==
    (last.op = "handleTextureUpload" /\ last.info # <<>>) =>
        LET assignments == Assignments(textureFiles)
        IN  \A a, b \in DOMAIN assignments :
                assignments[a].entry.key = assignments[b].entry.key => a = b

\* C13: diffuse fallback: when no entry matched the diffuse slot by pattern,
\* the first entry in registry order that no slot uses goes to diffuse (none
\* if every entry is in use); when an entry did match diffuse by pattern, an
\* entry that matches no pattern goes to no slot.
C13_DiffuseFallback ==
    [][ResolvesOnBlank =>
        LET reg == textureFiles'
            used == {FirstHolding(reg, p) : p \in Slots}
            free == {i \in DOMAIN reg : i \notin used}
            plain == {i \in DOMAIN reg : \A p \in Slots :
                        \A q \in PatternsOf(p) : ~Contains(LoweredName(reg, i), q)}
        IN  \A m \in DOMAIN obj'.mats :
              IF FirstHolding(reg, "map") = 0
              THEN IF free = {} THEN obj'.mats[m].maps["map"] = <<>>
                   ELSE HoldsUrl(obj', m, "map",
                                 reg[CHOOSE i \in free : \A j \in free : i <= j].url)
              ELSE \A i \in plain : \A p \in Slots : ~HoldsUrl(obj', m, p, reg[i].url)]_vars

\* a normal map and an unrelated file were uploaded: the normal map is in
\* use, the unrelated file became the diffuse texture
C13_Witness ==
    /\ last.op = "handleTextureUpload"
    /\ last.info = << <<"N","o","r","m","a","l",".","p","n","g">>,
                      <<"f","o","o",".","p","n","g">> >>
    /\ HoldsUrl(obj, 1, "map", <<"b","l","o","b",":","f","o","o",".","p","n","g">>)
    /\ HoldsUrl(obj, 1, "normalMap", <<"b","l","o","b",":","N","o","r","m","a","l",".","p","n","g">>)

-----------------------------------------------------------------------------
(* Properties of texture resolution on bound textures (SpecRematch).       *)

\* the step resolves a non-empty batch on the current object
ResolvesBatch ==
    /\ last'.op = "handleTextureUpload"
    /\ last'.info # <<>>

\* the base filename of a path: the text after its last forward or back
\* slash, lowercased
BaseOf(path) ==
    LET seps == {i \in DOMAIN path : path[i] = "/" \/ path[i] = "\\"}
        from == IF seps = {} THEN 0 ELSE CHOOSE i \in seps : \A j \in seps : j <= i
    IN  [k \in 1..(Len(path) - from) |-> ToLowerChar(path[from + k])]

\* the registry entries that carry the base filename of the texture bound
\* to slot p of material m
NamedBy(tree, m, p, reg) ==
    {i \in DOMAIN reg :
        /\ tree.mats[m].maps[p][1].sourceFile # <<>>
        /\ LoweredName(reg, i) = BaseOf(tree.mats[m].maps[p][1].sourceFile)}

\* C14: the pattern-based assignment is applied to a material only for slots
\* still empty after the rematch: a slot that was populated before
\* resolution holds, after it, an uploaded file only if that file carries the
\* base filename of the texture the slot had, or the slot held it already.
C14_PopulatedSlotNotFilled ==
    [][ResolvesBatch =>
        \A m \in DOMAIN obj.mats : \A p \in Slots :
            obj.mats[m].maps[p] # <<>> =>
                /\ obj'.mats[m].maps[p] # <<>>
                /\ \A i \in DOMAIN textureFiles' :
                     HoldsUrl(obj', m, p, textureFiles'[i].url) =>
                        \/ i \in NamedBy(obj, m, p, textureFiles')
                        \/ HoldsUrl(obj, m, p, textureFiles'[i].url)]_vars

\* a file naming the diffuse slot by pattern was uploaded on the textured
\* model: the diffuse texture the model came with is still bound, and the
\* empty diffuse slot of the second material was filled
C14_Witness ==
    /\ last.op = "handleTextureUpload"
    /\ last.info = << <<"c","o","l","o","r","_","n","o","r","m","a","l",".","p","n","g">> >>
    /\ Len(obj.mats) = 2
    /\ obj.mats[1].maps["map"] # <<>>
    /\ obj.mats[1].maps["map"][1].sourceFile # <<>>
    /\ HoldsUrl(obj, 2, "map",
         <<"b","l","o","b",":","c","o","l","o","r","_","n","o","r","m","a","l",".","p","n","g">>)

\* C15: existing-slot rematch: a populated slot whose texture's base filename
\* (path prefix with forward or back slashes stripped, lowercased) is a
\* registry key gets the uploaded resource, tagged with the slot's color
\* space (color for diffuse and emissive, linear otherwise); a populated slot
\* whose base filename is no registry key keeps its resource.
C15_RematchBySourceFile ==
    [][ResolvesBatch =>
        \A m \in DOMAIN obj.mats : \A p \in Slots :
            obj.mats[m].maps[p] # <<>> =>
                LET named == NamedBy(obj, m, p, textureFiles')
                IN  IF named = {} THEN obj'.mats[m].maps[p] = obj.mats[m].maps[p]
                    ELSE /\ \E i \in named :
                              HoldsUrl(obj', m, p, <<"b","l","o","b",":">> \o textureFiles'[i].file)
                         /\ obj'.mats[m].maps[p][1].colorSpace =
                              IF p \in {"map", "emissiveMap"} THEN "srgb" ELSE "srgb-linear"]_vars

\* Normal.png was uploaded after a file that names the normal slot by
\* pattern: the normal map bound from tex\Normal.png is now the uploaded
\* Normal.png, tagged linear
C15_Witness ==
    /\ last.op = "handleTextureUpload"
    /\ last.info = << <<"c","o","l","o","r","_","n","o","r","m","a","l",".","p","n","g">>,
                      <<"N","o","r","m","a","l",".","p","n","g">> >>
    /\ Len(obj.mats) = 2
    /\ HoldsUrl(obj, 1, "normalMap", <<"b","l","o","b",":","N","o","r","m","a","l",".","p","n","g">>)
    /\ obj.mats[1].maps["normalMap"][1].colorSpace = "srgb-linear"
    /\ obj.mats[1].maps["map"][1].sourceFile # <<>>

-----------------------------------------------------------------------------
(* Properties of textures across the loaders (SpecTextures).               *)

\* C16: after any sequence of model loads, batch texture uploads and
\* individual-slot uploads, every populated texture slot of the current
\* object's mesh materials is tagged with the color (sRGB) color space if it
\* is the diffuse or the emissive slot, and with the linear one otherwise.
C16_SlotsTaggedBySlotKind ==
    \A n \in DOMAIN obj.nodes :
        obj.nodes[n].isMesh =>
            \A k \in DOMAIN obj.nodes[n].material : \A p \in Slots :
                LET slot == obj.mats[obj.nodes[n].material[k]].maps[p]
                IN  slot # <<>> =>
                        slot[1].colorSpace = IF p \in {"map", "emissiveMap"}
                                             THEN SRGBColorSpace
                                             ELSE LinearSRGBColorSpace

\* the textured model is shown with the diffuse and the emissive map it came
\* with (decoded without a tag), a file uploaded to the normal slot, and
\* the empty diffuse slot of its second material filled from the registry
C16_Witness ==
    /\ Len(obj.mats) = 2
    /\ obj.mats[1].maps["map"] # <<>>
    /\ obj.mats[1].maps["map"][1].sourceFile # <<>>
    /\ obj.mats[2].maps["emissiveMap"] # <<>>
    /\ HoldsUrl(obj, 2, "normalMap", <<"b","l","o","b",":">> \o SlotFile)
    /\ HoldsUrl(obj, 2, "map",
         <<"b","l","o","b",":","c","o","l","o","r","_","n","o","r","m","a","l",".","p","n","g">>)

\* C17: each of the three loaders, on a successful decode, replaces the
\* current object, fits it to the scene, attaches shadow flags and
\* color-space fixups and then applies the uploaded textures: the textures
\* of the registry are applied to the loaded model whichever format it has.
C17_EveryLoaderAppliesUploads ==
    (Installed /\ last.op # "loadShape" /\ textureFiles # <<>>)
        => last.applySeen = <<textureFiles>>

\* the string value the registry gives for a property value: the locator of
\* the entry that carries the value's base filename, else the value
Rewritten(value, reg) ==
    LET named == {i \in DOMAIN reg : LoweredName(reg, i) = BaseOf(value)}
    IN  IF named = {} THEN value
        ELSE <<"b","l","o","b",":">> \o reg[CHOOSE i \in named : TRUE].file

\* C18: an OBJ load with a pending material file: every string-valued
\* property of every material entry whose base filename is a registry key is
\* rewritten to the uploaded locator, every other value (such as '1 1 1') is
\* left as it is, and the rewritten descriptor is the one bound to the
\* parser that parses the geometry.
C18_DescriptorRewrittenThenBound ==
    (last.op = "mtlReaderOnload" /\ ~last.thrown) =>
        /\ last.mtlBound # <<>>
        /\ last.loaderCalls = <<"objLoader.parse">>
        /\ Len(last.info) = 1
        /\ LET given == MaterialsInfo(last.mtlBound[1])
               bound == last.info[1]
           IN  /\ DOMAIN bound = DOMAIN given
               /\ \A m \in DOMAIN given :
                    /\ bound[m].name = given[m].name
                    /\ DOMAIN bound[m].props = DOMAIN given[m].props
                    /\ \A k \in DOMAIN given[m].props :
                         /\ bound[m].props[k].key = given[m].props[k].key
                         /\ bound[m].props[k].value =
                              IF given[m].props[k].isString
                              THEN Rewritten(given[m].props[k].value, textureFiles)
                              ELSE given[m].props[k].value

\* an OBJ model was parsed with the material file while Albedo.png was in
\* the registry: the diffuse map of the model's material is the uploaded file
C18_Witness ==
    /\ last.op = "mtlReaderOnload"
    /\ last.failed = ""
    /\ \E i \in DOMAIN textureFiles :
            textureFiles[i].file = <<"A","l","b","e","d","o",".","p","n","g">>
    /\ HoldsUrl(obj, 1, "map", <<"b","l","o","b",":","A","l","b","e","d","o",".","p","n","g">>)
    /\ last.info[1][1].props[2].value = <<"1"," ","1"," ","1">>

-----------------------------------------------------------------------------
(* Properties of the camera and of fitObjectToScene on held objects        *)
(* (SpecCamera).                                                           *)

\* the object's bounding box is centered on the world origin and its
\* greatest extent is 3
CenteredAtTargetSize(tree) ==
    /\ tree.box # EmptyBox
    /\ \A k \in 1..3 :
          RatAdd(tree.position[k],
                 RatMul(tree.scale[k],
                        RatMul(RatAdd(tree.box[1].min[k], tree.box[1].max[k]), <<1, 2>>)))
            = <<0, 1>>
    /\ GreatestExtent(tree) = <<3, 1>>

\* C21: fitObjectToScene is idempotent on an object that is already centered
\* at the origin and already has maximum extent 3: a call on such an object
\* leaves its scale and its position as they are, so that applying it twice
\* gives the same scale and position as applying it once.
C21_FitIsIdempotent ==
    [][(last'.op = "fitObjectToScene" /\ CenteredAtTargetSize(heldObject.tree)) =>
            /\ heldObject'.tree.scale = heldObject.tree.scale
            /\ heldObject'.tree.position = heldObject.tree.position]_vars

\* the mesh placed at (10, 5, 3) was fitted twice: it is scaled by 3/2,
\* centered, and of extent 3
C21_Witness ==
    /\ last.op = "fitObjectToScene"
    /\ heldObject.fits = 2
    /\ heldObject.tree.scale = <<<<3, 2>>, <<3, 2>>, <<3, 2>>>>
    /\ CenteredAtTargetSize(heldObject.tree)

-----------------------------------------------------------------------------
(* Properties of the toggles and of the animation frame (SpecToggles).     *)

\* C22: a freshly constructed viewer has rotation enabled, and each
\* toggleRotation call flips the flag: one call disables rotation and a
\* second call re-enables it.
C22_StartsEnabledAndFlips ==
    /\ isRotating = TRUE
    /\ [][last'.op = "toggleRotation" => isRotating' = ~isRotating]_vars

\* C23: in one animation frame, if a current object exists and rotation is
\* enabled, the object's rotation advances by exactly 0.005 about x and 0.01
\* about y (and not about z); if rotation is disabled, or there is no
\* current object, the frame leaves the rotation as it is.
C23_FrameAdvancesRotation ==
    [][last'.op = "animate" =>
        IF currentObject # NoObject /\ isRotating
        THEN /\ obj'.rotation[1] = RatAdd(obj.rotation[1], <<1, 200>>)
             /\ obj'.rotation[2] = RatAdd(obj.rotation[2], <<1, 100>>)
             /\ obj'.rotation[3] = obj.rotation[3]
        ELSE obj'.rotation = obj.rotation]_vars

\* two frames with rotation enabled have turned the teapot by 0.01 about x
\* and 0.02 about y
C23_Witness ==
    /\ last.op = "animate"
    /\ isRotating
    /\ Len(obj.nodes) = 6
    /\ obj.rotation = <<<<1, 100>>, <<1, 50>>, <<0, 1>>>>

\* C26: toggleWireframe negates the wireframe flag of every material of the
\* current object: each material's flag after the call is the opposite of
\* its flag before, for a single material, for a material array and for one
\* material shared by several meshes; with no current object it changes
\* nothing.
C26_EveryMaterialFlagNegated ==
    [][last'.op = "toggleWireframe" =>
        IF currentObject = NoObject THEN obj' = obj
        ELSE \A n \in DOMAIN obj.nodes :
                obj.nodes[n].isMesh =>
                    \A k \in DOMAIN obj.nodes[n].material :
                        obj'.mats[obj.nodes[n].material[k]].wireframe
                            = ~obj.mats[obj.nodes[n].material[k]].wireframe]_vars

\* C29: loadShape with a kind outside cube, sphere, torus, cone, cylinder,
\* teapot is a no-op: the current object and the children of the scene are
\* the same after the call as before it.
C29_UnknownKindIsNoOp ==
    [][(/\ last'.op = "loadShape"
        /\ last'.file[1] \notin {"cube", "sphere", "torus", "cone", "cylinder", "teapot"})
            => /\ currentObject' = currentObject
               /\ sceneChildren' = sceneChildren
               /\ obj' = obj]_vars

-----------------------------------------------------------------------------
(* Properties of the camera (SpecCamera).                                  *)

\* C24: resetCamera with a current object leaves camera position, orbit
\* target, clip planes, orbit distance limits and directional light exactly
\* as the camera-framing step on that object leaves them (as they are, when
\* that step returns early on an empty box); with no current object it sets
\* the camera position to (0, 0, 5) and the orbit target to the origin.
C24_ResetReframesOrDefaults ==
    [][last'.op = "resetCamera" =>
        IF currentObject # NoObject
        THEN view' = IF framed # <<>> THEN framed[1] ELSE view
        ELSE /\ view'.position = [k \in 1..3 |-> [r |-> IF k = 3 THEN <<5, 1>> ELSE <<0, 1>>,
                                                 k |-> <<0, 1>>, l |-> <<0, 1>>]]
             /\ view'.target = <<<<0, 1>>, <<0, 1>>, <<0, 1>>>>]_vars

\* the camera was reset on the teapot: the view is the one the framing step
\* left when the teapot was loaded, its target off the origin
C24_Witness ==
    /\ last.op = "resetCamera"
    /\ currentObject # NoObject
    /\ Len(obj.nodes) = 6
    /\ framed = <<view>>
    /\ view.target # <<<<0, 1>>, <<0, 1>>, <<0, 1>>>>

\* C25: resetCamera returns the camera to the default pose from any prior
\* camera state: on a constructed viewer whose current object is the default
\* cube, after resetCamera the camera position is (0, 0, 5) and the orbit
\* target is (0, 0, 0).
C25_ResetGivesDefaultPose ==
    (/\ last.op = "resetCamera"
     /\ currentObject # NoObject
     /\ hierarchy = <<"C","u","b","e">>)
        => /\ view.position = [k \in 1..3 |-> [r |-> IF k = 3 THEN <<5, 1>> ELSE <<0, 1>>,
                                               k |-> <<0, 1>>, l |-> <<0, 1>>]]
           /\ view.target = <<<<0, 1>>, <<0, 1>>, <<0, 1>>>>

\* the center of the object's bounding box in world coordinates
BoxCenter(tree) ==
    [k \in 1..3 |->
        RatAdd(tree.position[k],
               RatMul(tree.scale[k],
                      RatMul(RatAdd(tree.box[1].min[k], tree.box[1].max[k]), <<1, 2>>)))]

\* C30: fitObjectToScene(node) frames the camera on the node it was given:
\* when node has a non-empty bounding box, after the call the orbit-control
\* target equals the center of node's bounding box, also when node is not the
\* viewer's current object.
C30_FramesTheGivenNode ==
    [][(last'.op = "fitObjectToScene" /\ heldObject.tree.box # EmptyBox) =>
            view'.target = BoxCenter(heldObject'.tree)]_vars

\* C27: when texture resolution assigns an emissive map to a material, the
\* emissive tint is set to full white only if it was not already set: a black
\* tint becomes white, and a material whose tint was already non-black keeps
\* that tint.
C27_SetTintIsKept ==
    [][last'.op = "handleTextureUpload" =>
        \A m \in DOMAIN obj.mats :
            (/\ obj.mats[m].maps["emissiveMap"] = <<>>
             /\ obj'.mats[m].maps["emissiveMap"] # <<>>
             /\ obj.mats[m].emissive # NoColor)
                => obj'.mats[m].emissive =
                     IF obj.mats[m].emissive = Black THEN White
                     ELSE obj.mats[m].emissive]_vars

\* a step in which the decode of pending load i succeeded
Completes(i) ==
    /\ last'.index = i
    /\ last'.op \in {"gltfOnLoad", "fbxReaderOnload", "objReaderOnload"}
    /\ last'.failed = ""

\* C28: with model loads (or a model load and a loadShape call) overlapping,
\* no completion is cancelled or ignored: each completion installs the result
\* of its own load as the current object, whatever was requested or installed
\* since, and leaves every other pending load pending; so a load requested
\* earlier that completes later overwrites the result of the later one.
C28_LastCompletionWins ==
    [][/\ \A i \in DOMAIN loads :
            Completes(i) =>
                /\ hierarchy' = FirstPart(loads[i].name)
                /\ currentObject' \notin {NoObject, currentObject}
                /\ Len(obj'.nodes) = Len(Decoded(loads[i].content).nodes)
                /\ obj'.mats[1].emissive = Decoded(loads[i].content).mats[1].emissive
                /\ Len(loads') = Len(loads) - 1
                /\ \A k \in DOMAIN loads \ {i} :
                        LET to == IF k < i THEN k ELSE k - 1
                        IN  /\ loads'[to].name = loads[k].name
                            /\ loads'[to].stage = loads[k].stage
       /\ last'.op \in {"loadShape", "gltfReaderOnload"} =>
                \A k \in DOMAIN loads :
                    /\ k \in DOMAIN loads'
                    /\ loads'[k].name = loads[k].name]_vars

\* b.fbx, requested after a.glb, completed first; a.glb then completed and
\* its result is the current object
C28_Witness ==
    /\ last.op = "gltfOnLoad"
    /\ last.overtaken
    /\ hierarchy = <<"a">>
    /\ Len(obj.nodes) = Len(SingleModel.nodes)

=============================================================================
